---- MODULE Spec2Model ----
(***************************************************************************)
(* Model of backend.py (TaskScraper): the consultation-task run            *)
(* (run_with_progress), the dispatch summary builder                       *)
(* (format_dispatch_summary and its helpers), the finalizer                *)
(* (finalize_task), the idempotency guard (notes_already_contain_summary)  *)
(* and the process around them (__main__).  The portal pages the code      *)
(* reads are the environment: every value read from a page is drawn from a *)
(* small set at the step that reads it, and every Playwright call that can *)
(* raise may raise.  The functions of the summary builder and the guard    *)
(* are also applied on their own, each under a specification that draws    *)
(* its arguments and makes the one call.                                   *)
(***************************************************************************)
EXTENDS Integers, Sequences, FiniteSets, TLC

VARIABLES
    due,        \* due_tasks: the sequence of task ids extract_due_consultation_tasks returned
    idx,        \* position of the for-loop of run_with_progress in due (1-based)
    pc,         \* control location of run_with_progress / of the finalizer harness
    cur,        \* locals of the current loop iteration (job_type, is_free, summary_text, ...)
    form,       \* the portal's form of each task: notes textarea, the two checkboxes, submits
    results,    \* run_with_progress: results
    errors,     \* run_with_progress: errors
    attempted,  \* history: the tasks whose loop body was entered, in order
    attempts,   \* history: number of finalize_task calls made for each task
    finLog,     \* history: the finalize_task calls made by the finalizer harness
    DRY_RUN,    \* the module-level flag DRY_RUN
    proc,       \* the process running __main__: control location, browser resources, exit
    arg,        \* the arguments of the function a function-level specification applies
    res         \* what that function returned or raised

vars == <<due, idx, pc, cur, form, results, errors, attempted, attempts, finLog,
          DRY_RUN, proc, arg, res>>

\* what run_with_progress and finalize_task never assign
aux == <<DRY_RUN, proc, arg, res>>

----------------------------------------------------------------------------
(* Bounds *)

MaxTasks == 2
MaxCalls == 3

(* Program constants *)

Threshold == 90

TaskIds == 1..MaxTasks

----------------------------------------------------------------------------
(* Text.  A string the code transforms character by character is a sequence *)
(* of one-character strings.                                                *)

IsSpace(c) == c \in {" ", "\t", "\n"}

\* str.lower() on the letters that occur in the inputs below
LowerChar(c) ==
    CASE c = "C" -> "c" [] c = "O" -> "o" [] c = "M" -> "m" [] c = "P" -> "p"
      [] c = "L" -> "l" [] c = "E" -> "e" [] c = "T" -> "t" [] c = "D" -> "d"
      [] c = "N" -> "n" [] c = "I" -> "i" [] c = "G" -> "g"
      [] OTHER -> c

Lower(s) == [i \in 1..Len(s) |-> LowerChar(s[i])]

RECURSIVE LStrip(_)
LStrip(s) == IF s # <<>> /\ IsSpace(Head(s)) THEN LStrip(Tail(s)) ELSE s

RECURSIVE RStrip(_)
RStrip(s) ==
    IF s # <<>> /\ IsSpace(s[Len(s)]) THEN RStrip(SubSeq(s, 1, Len(s) - 1)) ELSE s

\* str.strip()
Strip(s) == RStrip(LStrip(s))

----------------------------------------------------------------------------
(* Results of a call: a returned value or a raised exception.              *)

Ret(v)   == [st |-> "ok", val |-> v]
Raise(e) == [st |-> "raise", exc |-> e]

----------------------------------------------------------------------------
(* JobTypeClassifier.  The score is what rapidfuzz's process.extractOne    *)
(* (scorer partial_ratio) returns for the normalized job type against the  *)
(* keyword set; the library is not part of the source, so a job type comes *)
(* with its two scores: 100 where a keyword of the set is a substring of   *)
(* the job type, and any score not above the threshold where none is near. *)

LowScores == {0, 90}

JobInputs ==
    {[job_type |-> "", free |-> 0, bill |-> 0]}
    \cup {[job_type |-> "WiFi Survey", free |-> 100, bill |-> b] : b \in LowScores}
    \cup {[job_type |-> "ONT Move", free |-> f, bill |-> 100] : f \in LowScores}
    \cup {[job_type |-> "Speed Test", free |-> f, bill |-> b] : f \in LowScores, b \in LowScores}
    \cup {[job_type |-> "ONT Swap, ONT Move", free |-> 100, bill |-> 100]}

\* JOB_TYPE_CATEGORIES["Free"] and ["Billable"]: the keywords as
\* normalize_string leaves them, character by character
FreeKeywords ==
    { <<"w", "i", "f", "i", " ", "s", "u", "r", "v", "e", "y">>,
      <<"n", "i", "d", "i", "w", "c", "o", "p", "p", "e", "r", "t", "e", "s", "t">>,
      <<"e", "q", "u", "i", "p", "m", "e", "n", "t", " ", "c", "h", "e", "c", "k">>,
      <<"s", "w", "a", "p", " ", "r", "o", "u", "t", "e", "r">>,
      <<"o", "n", "t", " ", "s", "w", "a", "p">>,
      <<"s", "t", "b", " ", "t", "o", " ", "o", "n", "n", " ", "c", "o", "n", "v", "e", "r", "s", "i", "o", "n">>,
      <<"j", "a", "c", "k", "f", "x", "s", "p", "h", "o", "n", "e", " ", "c", "h", "e", "c", "k">>,
      <<"b", "l", "a", "n", "k">>,
      <<"g", "o", "l", "i", "v", "e">>,
      <<"i", "n", "s", "t", "a", "l", "l">>,
      <<"r", "o", "u", "g", "e", " ", "o", "n", "t">>,
      <<"o", "n", "n", " ", "s", "w", "a", "p">>,
      <<"o", "n", "t", " ", "d", "y", "i", "n", "g">>,
      <<"s", "t", "b", " ", "s", "w", "a", "p">>,
      <<"t", "i", "e", " ", "d", "o", "w", "n">>,
      <<"o", "n", "n">> }

BillableKeywords ==
    { <<"o", "n", "t", " ", "m", "o", "v", "e">>,
      <<"o", "n", "t", " ", "i", "n", " ", "d", "i", "s", "c", "o">>,
      <<"f", "i", "b", "e", "r", " ", "c", "u", "t">>,
      <<"b", "r", "o", "k", "e", "n", " ", "f", "i", "b", "e", "r">>,
      <<"f", "i", "b", "e", "r", " ", "m", "o", "v", "e">> }

Alphabet ==
    {"a", "b", "c", "d", "e", "f", "g", "h", "i", "j", "k", "l", "m", "n", "o", "p", "q",
     "r", "s", "t", "u", "v", "w", "x", "y", "z", "0", "1", "2", "3", "4", "5", "6", "7",
     "8", "9", " "}

\* re.sub(r'[^a-z0-9 ]+', '', s.lower()).strip()
normalize_string(s) == Strip(SelectSeq(Lower(s), LAMBDA c : c \in Alphabet))

\* one row of the table of longest common subsequences: the row of character
\* c of one string against the string b, from the row before it
RECURSIVE LcsRow(_, _, _, _)
LcsRow(prev, c, b, row) ==
    LET j == Len(row) + 1
    IN IF j > Len(b) THEN row
       ELSE LET diag == IF j = 1 THEN 0 ELSE prev[j - 1]
                left == IF j = 1 THEN 0 ELSE row[j - 1]
                up   == prev[j]
            IN LcsRow(prev, c, b,
                      Append(row, IF c = b[j] THEN diag + 1
                                  ELSE IF up >= left THEN up ELSE left))

RECURSIVE LcsRows(_, _, _)
LcsRows(a, b, prev) ==
    IF a = <<>> THEN prev ELSE LcsRows(Tail(a), b, LcsRow(prev, Head(a), b, <<>>))

\* the length of the longest common subsequence of a and b
LcsLen(a, b) == IF b = <<>> THEN 0 ELSE LcsRows(a, b, [j \in 1..Len(b) |-> 0])[Len(b)]

\* rapidfuzz fuzz.ratio: 100 * 2 * lcs / (len(a) + len(b)), here rounded up to
\* a whole number, so that "score > 90" is decided as for the exact value
Ratio(a, b) ==
    IF Len(a) + Len(b) = 0 THEN 100
    ELSE (200 * LcsLen(a, b) + Len(a) + Len(b) - 1) \div (Len(a) + Len(b))

\* rapidfuzz fuzz.partial_ratio: the best ratio of the shorter string against
\* a window of the longer one: its prefixes shorter than the window, every
\* window of the shorter string's length, and its suffixes shorter than that
partial_ratio(s1, s2) ==
    LET short == IF Len(s1) <= Len(s2) THEN s1 ELSE s2
        long  == IF Len(s1) <= Len(s2) THEN s2 ELSE s1
        l1 == Len(short)
        l2 == Len(long)
        windows == {SubSeq(long, 1, i) : i \in 1..(l1 - 1)}
                   \cup {SubSeq(long, i, i + l1 - 1) : i \in 1..(l2 - l1 + 1)}
                   \cup {SubSeq(long, i, l2) : i \in (l2 - l1 + 2)..l2}
        scores == {Ratio(short, w) : w \in windows}
    IN CHOOSE x \in scores : \A y \in scores : y <= x

\* process.extractOne(query, choices, scorer=fuzz.partial_ratio): the score of
\* the best choice
extractOne(query, choices) ==
    LET scores == {partial_ratio(query, k) : k \in choices}
    IN CHOOSE x \in scores : \A y \in scores : y <= x

\* The job type parse_job_type_from_task returns for notes that say
\* "courtesy dispatch" or "no charge", with the scores of its normalized text.
Consultation == <<"C", "o", "n", "s", "u", "l", "t", "a", "t", "i", "o", "n">>

ConsultationInput ==
    [job_type |-> "Consultation",
     free |-> extractOne(normalize_string(Consultation), FreeKeywords),
     bill |-> extractOne(normalize_string(Consultation), BillableKeywords)]

\* What the notes of a task say about the charge: nothing, or one of the
\* two phrases, in the letter case the technician wrote.
Mentions == {"", "Courtesy Dispatch", "no charge", "NO CHARGE"}

\* raw_notes.lower(), on the phrase
LowerMention(m) ==
    CASE m = "Courtesy Dispatch" -> "courtesy dispatch"
      [] m = "NO CHARGE" -> "no charge"
      [] OTHER -> m

\* parse_job_type_from_task: the test of the two phrases comes first; rest is
\* what the patterns after it make of the notes
parse_job_type_from_task(mention, rest) ==
    IF LowerMention(mention) \in {"courtesy dispatch", "no charge"} THEN ConsultationInput
    ELSE rest

\* Python's None, an atom that is no job type text
None == "None"

\* not job_type
Falsy(job_type) == job_type \in {"", None}

is_free_job(job_type, score) ==
    IF Falsy(job_type) THEN [match |-> "(blank)", flag |-> TRUE, score |-> 100]
    ELSE [match |-> "free", flag |-> score > Threshold, score |-> score]

\* is_billable_job without its test of a blank job type
is_billable_job_unguarded(job_type, score) ==
    [match |-> "billable", flag |-> score > Threshold, score |-> score]

is_billable_job(job_type, score) ==
    IF Falsy(job_type) THEN [match |-> "(blank)", flag |-> FALSE, score |-> 0]
    ELSE [match |-> "billable", flag |-> score > Threshold, score |-> score]

----------------------------------------------------------------------------
(* DispatchSummaryBuilder: the helpers of format_dispatch_summary.         *)

\* The task detail view as get_customer_and_ticket_info_from_task reads it:
\* custOk: the Customer ID / Customer Name cells can be read;
\* ticketEl: the "Dispatch for Ticket N" element appears in time; ticket: N.
Tickets == {12}

TaskPages == [custOk : BOOLEAN, ticketEl : BOOLEAN, ticket : Tickets]

CustomerUrl(cid) == <<"http://inside.sockettelecom.com/menu.php?coid=1&tabid=7&parentid=9&customerid=", cid>>

\* ticket_number = None is assigned, but the dict is built from ticket_id, which
\* is bound only when the try block ran to its end: otherwise the read of
\* ticket_id raises UnboundLocalError.
NoInfo == [isNone |-> TRUE, customer_name |-> <<>>, cid |-> 0, ticket |-> 0,
           customer_url |-> <<>>]

get_customer_and_ticket_info_from_task(t, pg) ==
    IF ~pg.custOk THEN Ret(NoInfo)
    ELSE IF ~pg.ticketEl THEN Raise("UnboundLocalError")
    ELSE Ret([isNone |-> FALSE, customer_name |-> <<"customer", t>>, cid |-> t,
              ticket |-> pg.ticket, customer_url |-> CustomerUrl(t)])

\* A row of the customer's work-order table: tds cells; digit: the text of the
\* first cell is all digits (FALSE for the header row "#"); num: that number;
\* ref: the ticket number the description cites after "ticket #" (0: none).
Row(tds, digit, num, ref) == [tds |-> tds, digit |-> digit, num |-> num, ref |-> ref]

\* present: the selector "#custWork #workShow table tr" matched in time.
Table(present, rows) == [present |-> present, rows |-> rows]

WoTables ==
    { Table(FALSE, <<>>),
      Table(TRUE, <<>>),
      Table(TRUE, << Row(5, FALSE, 0, 0), Row(5, TRUE, 8, 45) >>),
      Table(TRUE, << Row(5, FALSE, 0, 0), Row(5, TRUE, 7, 12), Row(5, TRUE, 9, 12),
                     Row(5, TRUE, 8, 45), Row(4, TRUE, 11, 12) >>) }

\* re.search(rf"ticket\s*#?\s*{ticket_number}", desc): the pattern is not
\* anchored after the number, so it matches every cited number that starts
\* with the digits of ticket_number.
RECURSIVE IsDecimalPrefix(_, _)
IsDecimalPrefix(n, m) == m = n \/ (m >= 10 /\ IsDecimalPrefix(n, m \div 10))

RowMatches(row, ticket_number) ==
    /\ row.tds >= 5
    /\ row.digit
    /\ row.ref # 0
    /\ IsDecimalPrefix(ticket_number, row.ref)

WoLink(wo_num) == <<"http://inside.sockettelecom.com/", "view.php?nCount=", wo_num>>

MaxOf(S) == CHOOSE x \in S : \A y \in S : y <= x

\* dispatch_wos of lines 636-653, as the set of the matching rows' numbers
DispatchWos(table, ticket_number) ==
    {table.rows[i].num : i \in {j \in 1..Len(table.rows) : RowMatches(table.rows[j], ticket_number)}}

\* The value "return None, None" gives: no url, no number.
NoWorkOrder == [found |-> FALSE, wo_url |-> <<>>, wo_number |-> 0]

\* get_dispatch_work_order_url is called without its log argument (line 332), so
\* log is None and each of the three "not found" branches raises TypeError at
\* its log(...) call, before its "return None, None".
get_dispatch_work_order_url(table, ticket_number) ==
    IF ~table.present THEN Raise("TypeError")
    ELSE IF Len(table.rows) = 0 THEN Raise("TypeError")
    ELSE IF DispatchWos(table, ticket_number) = {} THEN Raise("TypeError")
    ELSE Ret([found |-> TRUE,
              wo_url |-> WoLink(MaxOf(DispatchWos(table, ticket_number))),
              wo_number |-> MaxOf(DispatchWos(table, ticket_number))])

\* The raw text of the work order's Status cell.
StatusInputs ==
    { <<"C","o","m","p","l","e","t","e">>,
      <<" ","C","O","M","P","L","E","T","E","D","\n">>,
      <<"P","e","n","d","i","n","g">>,
      <<"c","o","m","p","l","e","t","e","s">>,
      <<>> }

CompleteWords ==
    { <<"c","o","m","p","l","e","t","e">>,
      <<"c","o","m","p","l","e","t","e","d">> }

\* status = el.inner_text().strip().lower(); status in ("complete", "completed")
StatusAcceptedAny(raw) == TRUE

StatusAccepted(raw) == Lower(Strip(raw)) \in CompleteWords

\* The text block of lines 405-424, one <<label, value>> pair per line; w holds
\* the locals arr_display, dep_display, total_display, work_done, equipment
\* and responsible.
SummaryBlock(ci, wo_number, wo_url, w) ==
    << <<"CUSTOMER: ", ci.customer_name>>,
       <<"CID: ", ci.cid>>,
       <<"WORK ORDER NUMBER: ", wo_number>>,
       <<"WORK ORDER LINK: ", wo_url>>,
       <<"">>,
       <<"Arrival Time: ", w.arr_display>>,
       <<"Departure Time: ", w.dep_display>>,
       <<"">>,
       <<"Total time of DP: ", w.total_display>>,
       <<"">>,
       <<"WORK DONE (DISPATCH NOTES):">>,
       <<w.work_done>>,
       <<"">>,
       <<"EQUIPMENT USED:">> >>
    \o [i \in 1..Len(w.equipment) |-> <<w.equipment[i]>>]
    \o << <<"">>, <<"RESPONSIBLE PARTY: ", w.responsible>> >>

\* What format_dispatch_summary computed from the work-order page (lines
\* 352-403), as the values it puts into the block.
WoContents ==
    { [arr_display |-> "08:00", dep_display |-> "11:10", total_display |-> "3.25",
       work_done |-> "replaced drop", equipment |-> <<"ONT">>, responsible |-> "Customer"] }

NoSummary == <<>>

----------------------------------------------------------------------------
(* Finalizer: finalize_task on the portal's form of one task.              *)

\* The form: the notes textarea, the SpawnBillingTask and completed
\* checkboxes, and the number of clicks on "Update Task".  The state of the
\* checkboxes before the run is the portal's: it is drawn when finalize_task
\* first loads the form (loaded), and NotLoaded stands for a form the run has
\* not looked at.
Form(notes, billing, completed, submits) ==
    [loaded |-> TRUE, notes |-> notes, billing |-> billing, completed |-> completed,
     submits |-> submits]

NotLoaded == [Form(<<>>, FALSE, FALSE, 0) EXCEPT !.loaded = FALSE]

InitialForms == {Form(<<>>, b, c, 0) : b \in BOOLEAN, c \in BOOLEAN}

\* The call of finalize_task that raises inside its try block, if any.
FinalizeSteps == {"none", "frame", "form", "notes", "fill", "billing", "completed", "submit"}

FinResult(ok, f, tb, tc) == [ok |-> ok, form |-> f, toggledBilling |-> tb, toggledCompleted |-> tc]

\* the actions of a finalize_task whose failing click has clicked all the same
FinalizeActionsClicked(f, is_free, failAt) ==
    IF failAt \in {"frame", "form", "notes", "fill"} THEN <<>>
    ELSE LET billing   == IF ~is_free /\ ~f.billing THEN <<"check_billing">> ELSE <<>>
             completed == IF ~f.completed THEN <<"check_completed">> ELSE <<>>
         IN  IF ~is_free /\ failAt = "billing" THEN <<"fill">>
             ELSE IF failAt = "completed" THEN <<"fill">> \o billing
             ELSE <<"fill">> \o billing \o completed \o <<"submit">>

\* The actions finalize_task performs on the form, in order: fill, check (of a
\* checkbox that is_checked() reports unchecked) and the click on "Update Task".
FinalizeActions(f, is_free, failAt) ==
    IF failAt \in {"frame", "form", "notes", "fill"} THEN <<>>
    ELSE LET billing   == IF ~is_free /\ ~f.billing THEN <<"check_billing">> ELSE <<>>
             completed == IF ~f.completed THEN <<"check_completed">> ELSE <<>>
         IN  IF ~is_free /\ failAt = "billing" THEN <<"fill">>
             ELSE IF failAt = "completed" THEN <<"fill">> \o billing
             ELSE IF failAt = "submit" THEN <<"fill">> \o billing \o completed
             ELSE <<"fill">> \o billing \o completed \o <<"submit">>

\* finalize_task with the completed checkbox clicked instead of checked
finalize_task_clicking(f, summary_text, is_free, failAt) ==
    IF failAt \in {"frame", "form", "notes", "fill"} THEN FinResult(FALSE, f, FALSE, FALSE)
    ELSE
    LET f1 == [f EXCEPT !.notes = summary_text]
        tb == ~is_free /\ ~f1.billing
        f2 == IF ~is_free THEN [f1 EXCEPT !.billing = TRUE] ELSE f1
        f3 == [f2 EXCEPT !.completed = ~@]
        f4 == [f3 EXCEPT !.submits = @ + 1]
    IN  IF ~is_free /\ failAt = "billing" THEN FinResult(FALSE, f1, FALSE, FALSE)
        ELSE IF failAt = "completed" THEN FinResult(FALSE, f2, tb, FALSE)
        ELSE IF failAt = "submit" THEN FinResult(FALSE, f3, tb, TRUE)
        ELSE FinResult(TRUE, f4, tb, TRUE)

\* A failure before or in fill leaves the form as it was; a later one leaves
\* what the earlier steps did, unsubmitted.  The billing step exists only when
\* is_free is false, so failAt = "billing" fails no call made with is_free.
finalize_task(f, summary_text, is_free, failAt) ==
    IF failAt \in {"frame", "form", "notes", "fill"} THEN FinResult(FALSE, f, FALSE, FALSE)
    ELSE
    LET f1 == [f EXCEPT !.notes = summary_text]
        tb == ~is_free /\ ~f1.billing
        f2 == IF ~is_free THEN [f1 EXCEPT !.billing = TRUE] ELSE f1
        tc == ~f2.completed
        f3 == [f2 EXCEPT !.completed = TRUE]
        f4 == [f3 EXCEPT !.submits = @ + 1]
    IN  IF ~is_free /\ failAt = "billing" THEN FinResult(FALSE, f1, FALSE, FALSE)
        ELSE IF failAt = "completed" THEN FinResult(FALSE, f2, tb, FALSE)
        ELSE IF failAt = "submit" THEN FinResult(FALSE, f3, tb, tc)
        ELSE FinResult(TRUE, f4, tb, tc)

\* update_notes_only: fills the notes and clicks "Update Task", touching
\* neither checkbox.  No line of backend.py calls it and no line reads
\* DRY_RUN, so no action below applies it.
update_notes_only(f, summary_text, failAt) ==
    IF failAt \in {"notes", "fill"} THEN FinResult(FALSE, f, FALSE, FALSE)
    ELSE IF failAt = "submit"
         THEN FinResult(FALSE, [f EXCEPT !.notes = summary_text], FALSE, FALSE)
         ELSE FinResult(TRUE, [f EXCEPT !.notes = summary_text, !.submits = @ + 1],
                        FALSE, FALSE)

----------------------------------------------------------------------------
(* RunOrchestrator: run_with_progress.                                     *)

CurIdle ==
    [task |-> 0, job_type |-> "", freeScore |-> 0, billScore |-> 0,
     is_free |-> FALSE, is_bill |-> FALSE,
     noCharge |-> FALSE,
     hasNotes |-> FALSE, html |-> <<"(unread)">>,
     pageRead |-> FALSE, page |-> [custOk |-> FALSE, ticketEl |-> FALSE, ticket |-> 0],
     ci |-> NoInfo,
     tableRead |-> FALSE, table |-> Table(FALSE, <<>>),
     wo |-> NoWorkOrder,
     statusRead |-> FALSE, status |-> <<>>,
     summary_text |-> NoSummary,
     form0 |-> NotLoaded,
     finalized |-> FALSE, success |-> FALSE, mode |-> "",
     toggledBilling |-> FALSE, toggledCompleted |-> FALSE,
     expand |-> "",
     outcome |-> "idle", raisedAt |-> "", exc |-> ""]

\* The process: where __main__ is (pc), whether the name driver is bound, the
\* browser context, the browser and the Playwright runtime, the exception in
\* flight while the finally clause runs (pending), the exit status (-1 while
\* the process lives), and four history flags: the session setup (the driver,
\* handle_login, clear_first_time_overlays) raised,
\* extract_due_consultation_tasks was called, the clause "except Exception"
\* of __main__ was entered (aborted), and a signal was delivered (signalled).
Proc(where, driver, context, browser, pw) ==
    [pc |-> where, driver |-> driver, context |-> context, browser |-> browser, pw |-> pw,
     pending |-> "none", status |-> -1, setupRaised |-> FALSE, discovered |-> FALSE,
     aborted |-> FALSE, signalled |-> FALSE]

\* the process while run_with_progress runs its loop
ProcInRun == [Proc("run", TRUE, "open", "open", "running") EXCEPT !.discovered = TRUE]

\* no function-level call
NoCall == [fn |-> "none"]

\* run_with_progress has the due tasks and enters its loop
InitRun(n, dry) ==
    /\ due = [i \in 1..n |-> i]
    /\ idx = 1
    /\ pc = "loop"
    /\ cur = CurIdle
    /\ form = [t \in TaskIds |-> NotLoaded]
    /\ results = <<>>
    /\ errors = <<>>
    /\ attempted = <<>>
    /\ attempts = [t \in TaskIds |-> 0]
    /\ finLog = <<>>
    /\ DRY_RUN = dry
    /\ proc = ProcInRun
    /\ arg = NoCall
    /\ res = NoCall

\* DRY_RUN = False
Init == \E n \in 0..MaxTasks : InitRun(n, FALSE)

\* for task in due_tasks: the loop body is entered with the next task
EnterTask ==
    /\ pc = "loop"
    /\ idx <= Len(due)
    /\ cur' = [CurIdle EXCEPT !.task = due[idx], !.outcome = "running", !.form0 = form[due[idx]]]
    /\ attempted' = Append(attempted, due[idx])
    /\ pc' = "parse"
    /\ UNCHANGED <<due, idx, form, results, errors, attempts, finLog, aux>>

\* return results, errors
Return ==
    /\ pc = "loop"
    /\ idx > Len(due)
    /\ pc' = "done"
    /\ UNCHANGED <<due, idx, cur, form, results, errors, attempted, attempts, finLog, aux>>

\* where the loop goes after the except clause has recorded the error
ExceptNextPcAbort == "done"

ExceptNextPc == "next"

\* except Exception as e: errors.append(...); the loop goes on
Raised(c, where, e) ==
    /\ errors' = Append(errors, [Task |-> c.task, Error |-> e])
    /\ cur' = [c EXCEPT !.outcome = "raised", !.raisedAt = where, !.exc = e]
    /\ pc' = ExceptNextPc
    /\ UNCHANGED <<due, idx, form, results, attempted, attempts, finLog, aux>>

\* continue
Skip(c, why) ==
    /\ cur' = [c EXCEPT !.outcome = why]
    /\ pc' = "next"
    /\ UNCHANGED <<due, idx, form, results, errors, attempted, attempts, finLog, aux>>

\* a step that neither ends the iteration nor touches the portal
Goes(c, to) ==
    /\ cur' = c
    /\ pc' = to
    /\ UNCHANGED <<due, idx, form, results, errors, attempted, attempts, finLog, aux>>

\* 1) parse job type
ParseJobType ==
    /\ pc = "parse"
    /\ \/ Raised(cur, "parse", "PlaywrightError")
       \/ \E mention \in Mentions, rest \in JobInputs :
            LET j  == parse_job_type_from_task(mention, rest)
                fr == is_free_job(j.job_type, j.free)
                br == is_billable_job(j.job_type, j.bill)
            IN Goes([cur EXCEPT !.job_type = j.job_type, !.freeScore = fr.score, !.billScore = br.score,
                                !.is_free = fr.flag, !.is_bill = br.flag,
                                !.noCharge = (j = ConsultationInput)], "open")

\* The call of expand_task that raises inside its try block, if any.  The
\* scroll, the click and the wait are made only when the span is not visible.
ExpandSteps == {"none", "legend", "visible", "scroll", "click", "wait"}

\* an expand_task that lets the exception out
expand_task_raising(visible, failAt) ==
    IF failAt \in {"legend", "visible"} \/ (~visible /\ failAt # "none")
    THEN Raise("PlaywrightError")
    ELSE Ret("expanded")

\* expand_task: both except clauses log and fall through to the end
expand_task(visible, failAt) ==
    IF failAt \in {"legend", "visible"} \/ (~visible /\ failAt # "none")
    THEN Ret("failed")
    ELSE Ret("expanded")

\* 2) open & expand
OpenAndExpand ==
    /\ pc = "open"
    /\ \/ Raised(cur, "goto", "PlaywrightError")
       \/ \E visible \in BOOLEAN, failAt \in ExpandSteps :
            LET r == expand_task(visible, failAt)
            IN IF r.st = "raise" THEN Raised(cur, "expand", r.exc)
               ELSE Goes([cur EXCEPT !.expand = r.val], "notes")

\* The inner HTML of the task's display span, as tokens: tags, the opening
\* "<form" of the task's form, white space and text.
HtmlTags == {"<div>", "</div>", "<br>", "</form>"}

SpanHtmls ==
    { <<>>,
      <<"<form", "Save", "</form>">>,
      <<"<div>", "replaced drop", "</div>", "<form", "Save", "</form>">>,
      <<"<div>", " ", "\n", "</div>", "<form", "Save", "</form>">>,
      <<"\n", "replaced drop", "<br>">>,
      <<" ", "<br>", "<form", "replaced drop", "</form>">> }

\* the html no iteration has read yet
NoHtml == <<"(unread)">>

\* html.split("<form", 1)[0]
BeforeForm(html) ==
    IF \E i \in 1..Len(html) : html[i] = "<form"
    THEN SubSeq(html, 1, (CHOOSE i \in 1..Len(html) :
                             html[i] = "<form" /\ \A j \in 1..(i - 1) : html[j] # "<form") - 1)
    ELSE html

\* has_existing_notes looking at what follows the opening of the form
has_existing_notes_in_form(html) ==
    Strip(SelectSeq(SubSeq(html, Len(BeforeForm(html)) + 1, Len(html)),
                    LAMBDA t : t \notin HtmlTags \cup {"<form"})) # <<>>

\* plain = re.sub(r"<[^>]+>", "", before_form).strip(); return bool(plain)
has_existing_notes(html) ==
    Strip(SelectSeq(BeforeForm(html), LAMBDA t : t \notin HtmlTags)) # <<>>

\* 3) skip if notes already exist
CheckExistingNotes ==
    /\ pc = "notes"
    /\ LET c == [cur EXCEPT !.expand = ""]
       IN \/ Raised(c, "notes", "PlaywrightError")
          \/ \E html \in SpanHtmls :
               IF has_existing_notes(html)
               THEN Skip([c EXCEPT !.hasNotes = TRUE, !.html = html], "skipped_notes")
               ELSE Goes([c EXCEPT !.html = html], "info")

\* 4) format summary: ci = get_customer_and_ticket_info_from_task(driver)
GetInfo ==
    /\ pc = "info"
    /\ \E pg \in TaskPages :
         LET r == get_customer_and_ticket_info_from_task(cur.task, pg)
             c == [cur EXCEPT !.pageRead = TRUE, !.page = pg, !.html = NoHtml]
         IN IF r.st = "raise" THEN Raised(c, "info", r.exc)
            ELSE IF r.val.isNone THEN Skip(c, "skipped_nosummary")
            ELSE Goes([c EXCEPT !.ci = r.val], "wo")

\* timed_goto(customer_url); wo_url, wo_number = get_dispatch_work_order_url(...)
FindWorkOrder ==
    /\ pc = "wo"
    /\ \/ Raised(cur, "goto_customer", "PlaywrightError")
       \/ \E tb \in WoTables :
            LET r == get_dispatch_work_order_url(tb, cur.ci.ticket)
                c == [cur EXCEPT !.tableRead = TRUE, !.table = tb]
            IN IF r.st = "raise" THEN Raised(c, "wo", r.exc)
               ELSE IF ~r.val.found THEN Skip(c, "skipped_nosummary")
               ELSE Goes([c EXCEPT !.wo = r.val], "status")

\* timed_goto(wo_url); wait for #AdditionalNotes; read and test the status
ReadStatus ==
    /\ pc = "status"
    /\ \/ Raised(cur, "goto_wo", "PlaywrightError")
       \/ \E raw \in StatusInputs :
            LET c == [cur EXCEPT !.statusRead = TRUE, !.status = raw]
            IN IF ~StatusAccepted(raw) THEN Skip(c, "skipped_nosummary")
               ELSE Goes(c, "build")

\* the rest of format_dispatch_summary: read the fields, build the block
BuildSummary ==
    /\ pc = "build"
    /\ \/ Raised(cur, "build", "PlaywrightError")
       \/ \E w \in WoContents :
            LET text == SummaryBlock(cur.ci, cur.wo.wo_number, cur.wo.wo_url, w)
            IN IF text = NoSummary THEN Skip(cur, "skipped_nosummary")
               ELSE Goes([cur EXCEPT !.summary_text = text], "finalize")

\* mode = "Free" if is_free else "Billable"
Mode(is_free) == IF is_free THEN "Free" ELSE "Billable"

\* 5) finalize in one shot: goto, expand, finalize_task, then record the result
Finalize ==
    /\ pc = "finalize"
    /\ \/ Raised(cur, "goto_task", "PlaywrightError")
       \/ \E failAt \in FinalizeSteps, dbgRaises \in BOOLEAN, f0 \in InitialForms :
            LET t == cur.task
                f == IF form[t].loaded THEN form[t] ELSE f0
                r == finalize_task(f, cur.summary_text, cur.is_free, failAt)
                c == [cur EXCEPT !.finalized = TRUE, !.success = r.ok,
                                 !.toggledBilling = r.toggledBilling,
                                 !.toggledCompleted = r.toggledCompleted]
            IN /\ form[t].loaded => f0 = form[t]
               /\ form' = [form EXCEPT ![t] = r.form]
               /\ attempts' = [attempts EXCEPT ![t] = @ + 1]
               /\ IF r.ok THEN
                      /\ ~dbgRaises
                      /\ results' = Append(results,
                             [TaskID |-> t, JobType |-> cur.job_type, Mode |-> Mode(cur.is_free)])
                      /\ cur' = [c EXCEPT !.outcome = "succeeded", !.mode = Mode(cur.is_free)]
                      /\ pc' = "next"
                      /\ UNCHANGED errors
                  ELSE IF dbgRaises THEN
                      \* debug_frame_html(driver) raised
                      /\ errors' = Append(errors, [Task |-> t, Error |-> "PlaywrightError"])
                      /\ cur' = [c EXCEPT !.outcome = "raised", !.raisedAt = "debug",
                                          !.exc = "PlaywrightError"]
                      /\ pc' = ExceptNextPc
                      /\ UNCHANGED results
                  ELSE
                      /\ cur' = [c EXCEPT !.outcome = "failed"]
                      /\ pc' = "next"
                      /\ UNCHANGED <<results, errors>>
               /\ UNCHANGED <<due, idx, attempted, finLog, aux>>

\* the for loop takes the next task
EndIteration ==
    /\ pc = "next"
    /\ idx' = idx + 1
    /\ cur' = CurIdle
    /\ pc' = "loop"
    /\ UNCHANGED <<due, form, results, errors, attempted, attempts, finLog, aux>>

Next ==
    \/ EnterTask
    \/ Return
    \/ ParseJobType
    \/ OpenAndExpand
    \/ CheckExistingNotes
    \/ GetInfo
    \/ FindWorkOrder
    \/ ReadStatus
    \/ BuildSummary
    \/ Finalize
    \/ EndIteration

Spec == Init /\ [][Next]_vars

\* The same run with the module edited to DRY_RUN = True.
InitDry == \E n \in 0..MaxTasks : InitRun(n, TRUE)

SpecDry == InitDry /\ [][Next]_vars

----------------------------------------------------------------------------
(* A harness that applies finalize_task to the form of task 1 again and    *)
(* again, with any summary, any is_free and any failing step.              *)

FinTask == 1

FinSummaries ==
    { SummaryBlock([customer_name |-> <<"customer", FinTask>>, cid |-> FinTask],
                   n, WoLink(n), w) : n \in {7, 9}, w \in WoContents }

InitFin ==
    /\ due = <<>>
    /\ idx = 1
    /\ pc = "fin"
    /\ cur = CurIdle
    /\ \E f0 \in InitialForms, n0 \in {<<>>} \cup FinSummaries :
         form = [t \in TaskIds |-> IF t = FinTask THEN [f0 EXCEPT !.notes = n0] ELSE NotLoaded]
    /\ results = <<>>
    /\ errors = <<>>
    /\ attempted = <<>>
    /\ attempts = [t \in TaskIds |-> 0]
    /\ finLog = <<>>
    /\ DRY_RUN = FALSE
    /\ proc = ProcInRun
    /\ arg = NoCall
    /\ res = NoCall

CallFinalize ==
    /\ pc = "fin"
    /\ Len(finLog) < MaxCalls
    /\ \E summary_text \in FinSummaries, is_free \in BOOLEAN, failAt \in FinalizeSteps :
         LET r == finalize_task(form[FinTask], summary_text, is_free, failAt)
         IN /\ form' = [form EXCEPT ![FinTask] = r.form]
            /\ finLog' = Append(finLog, [summary_text |-> summary_text, is_free |-> is_free,
                                         ok |-> r.ok, before |-> form[FinTask],
                                         after |-> r.form,
                                         actions |-> FinalizeActions(form[FinTask], is_free, failAt)])
    /\ UNCHANGED <<due, idx, pc, cur, results, errors, attempted, attempts, aux>>

NextFin == CallFinalize

SpecFin == InitFin /\ [][NextFin]_vars

----------------------------------------------------------------------------
(* The process: __main__ from the launch of the browser to exit.  SIGTERM  *)
(* (handle_sigterm raises SystemExit(0)) and Ctrl-C (KeyboardInterrupt)    *)
(* arrive at any point of it.                                              *)

MaxMainTasks == 1

\* PW = sync_playwright().start(); browser = PW.chromium.launch(headless=True)
InitMain ==
    /\ \E n \in 0..MaxMainTasks : due = [i \in 1..n |-> i]
    /\ idx = 1
    /\ pc = "loop"
    /\ cur = CurIdle
    /\ form = [t \in TaskIds |-> NotLoaded]
    /\ results = <<>>
    /\ errors = <<>>
    /\ attempted = <<>>
    /\ attempts = [t \in TaskIds |-> 0]
    /\ finLog = <<>>
    /\ DRY_RUN = FALSE
    /\ proc = Proc("ctor", FALSE, "none", "open", "running")
    /\ arg = NoCall
    /\ res = NoCall

runVars == <<due, idx, pc, cur, form, results, errors, attempted, attempts, finLog>>

\* a step of __main__ that leaves run_with_progress and the portal alone
MainStep(p) ==
    /\ proc' = p
    /\ UNCHANGED <<runVars, DRY_RUN, arg, res>>

\* where an exception raised by the session setup takes __main__
SetupRaisesToNext == "overlays"

SetupRaisesTo == "except_exc"

\* driver = PlaywrightDriver(headless=True, playwright=PW, browser=browser):
\* new_context, then new_page; either may raise, and then driver is not bound
Construct ==
    /\ proc.pc = "ctor"
    /\ \/ MainStep([proc EXCEPT !.pc = "login", !.driver = TRUE, !.context = "open"])
       \/ MainStep([proc EXCEPT !.pc = SetupRaisesTo, !.setupRaised = TRUE])
       \/ MainStep([proc EXCEPT !.pc = SetupRaisesTo, !.setupRaised = TRUE, !.context = "open"])

\* attach_network_listeners(page); handle_login(driver)
Login ==
    /\ proc.pc = "login"
    /\ \/ MainStep([proc EXCEPT !.pc = "overlays"])
       \/ MainStep([proc EXCEPT !.pc = SetupRaisesTo, !.setupRaised = TRUE])

\* clear_first_time_overlays(driver.page)
Overlays ==
    /\ proc.pc = "overlays"
    /\ \/ MainStep([proc EXCEPT !.pc = "discover"])
       \/ MainStep([proc EXCEPT !.pc = SetupRaisesTo, !.setupRaised = TRUE])

\* run_with_progress: due_tasks = extract_due_consultation_tasks(driver)
Discover ==
    /\ proc.pc = "discover"
    /\ \/ MainStep([proc EXCEPT !.pc = "run", !.discovered = TRUE])
       \/ MainStep([proc EXCEPT !.pc = "except_exc", !.discovered = TRUE])

\* run_with_progress: the loop
RunStep ==
    /\ proc.pc = "run"
    /\ Next

\* log_message("Done. Parsed ..."); summarize_job_types(results); the try
\* block ends and the finally clause begins
Report ==
    /\ proc.pc = "run"
    /\ pc = "done"
    /\ MainStep([proc EXCEPT !.pc = "f_driver"])

\* except KeyboardInterrupt: sys.exit(0)
ExceptKeyboardInterrupt ==
    /\ proc.pc = "except_ki"
    /\ MainStep([proc EXCEPT !.pc = "f_driver", !.pending = "SystemExit0"])

\* except Exception as e: sys.exit(1)
ExceptException ==
    /\ proc.pc = "except_exc"
    /\ MainStep([proc EXCEPT !.pc = "f_driver", !.pending = "SystemExit1", !.aborted = TRUE])

\* finally: try: driver.close().  With driver unbound this is a NameError,
\* which the except Exception of the finally clause swallows; otherwise
\* PlaywrightDriver.close begins with self.context.close().
DriverClose ==
    /\ proc.pc = "f_driver"
    /\ IF proc.driver
       THEN MainStep([proc EXCEPT !.pc = "f_dbrowser", !.context = "closed"])
       ELSE MainStep([proc EXCEPT !.pc = "f_browser"])

\* PlaywrightDriver.close: self.browser.close()
DriverBrowserClose ==
    /\ proc.pc = "f_dbrowser"
    /\ MainStep([proc EXCEPT !.pc = "f_dpw", !.browser = "closed"])

\* PlaywrightDriver.close: self._pw.stop()
DriverPwStop ==
    /\ proc.pc = "f_dpw"
    /\ MainStep([proc EXCEPT !.pc = "f_browser", !.pw = "stopped"])

\* finally: try: browser.close().  Closing the browser closes its contexts.
\* On a runtime that is already stopped the call returns or raises; when it
\* raises, the except Exception of the same try skips PW.stop().
BrowserClose ==
    /\ proc.pc = "f_browser"
    /\ \/ MainStep([proc EXCEPT !.pc = "f_pw", !.browser = "closed",
                                !.context = IF @ = "open" THEN "closed" ELSE @])
       \/ /\ proc.pw = "stopped"
          /\ MainStep([proc EXCEPT !.pc = "input"])

\* finally: PW.stop()
PwStop ==
    /\ proc.pc = "f_pw"
    /\ MainStep([proc EXCEPT !.pc = "input", !.pw = "stopped"])

\* finally: input("Press Enter to exit..."); sys.exit(0).  input raises
\* EOFError on a closed stdin, and the process then ends with status 1.
PressEnter ==
    /\ proc.pc = "input"
    /\ \/ MainStep([proc EXCEPT !.pc = "exited", !.pending = "SystemExit0", !.status = 0])
       \/ MainStep([proc EXCEPT !.pc = "exited", !.pending = "EOFError", !.status = 1])

TryBody == {"ctor", "login", "overlays", "discover", "run"}
Handlers == {"except_ki", "except_exc"}
FinallyClause == {"f_driver", "f_dbrowser", "f_dpw", "f_browser", "f_pw", "input"}

\* A signal is delivered between two steps.  In the try block SIGTERM's
\* SystemExit passes both except clauses and starts the finally clause, and
\* KeyboardInterrupt enters its except clause; in an except clause either
\* starts the finally clause; in the finally clause neither is an Exception,
\* so it leaves the clause where it is and the process exits (status 0 for
\* SystemExit(0), 130 for an unhandled KeyboardInterrupt).
Signal ==
    /\ proc.pc # "exited"
    /\ \E s \in {"SIGTERM", "KeyboardInterrupt"} :
         LET e == IF s = "SIGTERM" THEN "SystemExit0" ELSE "KeyboardInterrupt"
         IN IF proc.pc \in TryBody /\ s = "KeyboardInterrupt"
            THEN MainStep([proc EXCEPT !.pc = "except_ki", !.signalled = TRUE])
            ELSE IF proc.pc \in TryBody \cup Handlers
            THEN MainStep([proc EXCEPT !.pc = "f_driver", !.pending = e, !.signalled = TRUE])
            ELSE MainStep([proc EXCEPT !.pc = "exited", !.pending = e, !.signalled = TRUE,
                                       !.status = IF s = "SIGTERM" THEN 0 ELSE 130])

NextMain ==
    \/ Construct
    \/ Login
    \/ Overlays
    \/ Discover
    \/ RunStep
    \/ Report
    \/ ExceptKeyboardInterrupt
    \/ ExceptException
    \/ DriverClose
    \/ DriverBrowserClose
    \/ DriverPwStop
    \/ BrowserClose
    \/ PwStop
    \/ PressEnter
    \/ Signal

SpecMain == InitMain /\ [][NextMain]_vars

----------------------------------------------------------------------------
(* The notes of a work order: extract_work_order_notes and the part of     *)
(* format_dispatch_summary that reads them.  A note text is a sequence of  *)
(* tokens: words and phrases, which a blank separates from the next word,  *)
(* and the delimiters ".", "," and "\n".                                    *)

FieldIds == <<"EquipmentInstalled", "AdditionalMaterials", "TestsPerformed", "AdditionalNotes">>

Delims == {".", ",", "\n"}

\* str.lower on a token
LowerTok(t) ==
    CASE t = "Damage caused by" -> "damage caused by"
      [] t = "Contractor" -> "contractor"
      [] t = "Brightspeed" -> "brightspeed"
      [] t = "Bright Speed" -> "bright speed"
      [] t = "Replaced" -> "replaced"
      [] t = "ONT" -> "ont"
      [] t = "EquipmentInstalled:" -> "equipmentinstalled:"
      [] t = "Additional Materials:" -> "additional materials:"
      [] t = "TestsPerformed::" -> "testsperformed::"
      [] t = "Additional Notes:" -> "additional notes:"
      [] OTHER -> t

LowerToks(s) == [i \in 1..Len(s) |-> LowerTok(s[i])]

\* str.strip on a token sequence: the white space at both ends goes
RECURSIVE StripToks(_)
StripToks(s) ==
    IF s = <<>> THEN s
    ELSE IF IsSpace(Head(s)) THEN StripToks(Tail(s))
    ELSE IF IsSpace(s[Len(s)]) THEN StripToks(SubSeq(s, 1, Len(s) - 1))
    ELSE s

\* str.splitlines
RECURSIVE SplitLines(_)
SplitLines(s) ==
    IF s = <<>> THEN <<>>
    ELSE IF \E i \in 1..Len(s) : s[i] = "\n"
         THEN LET i == CHOOSE k \in 1..Len(s) : s[k] = "\n" /\ \A j \in 1..(k - 1) : s[j] # "\n"
              IN <<SubSeq(s, 1, i - 1)>> \o SplitLines(SubSeq(s, i + 1, Len(s)))
         ELSE <<s>>

\* label.replace('Additional','Additional ').replace('Performed','Performed:') + ":"
Label(fid) ==
    CASE fid = "EquipmentInstalled" -> "EquipmentInstalled:"
      [] fid = "AdditionalMaterials" -> "Additional Materials:"
      [] fid = "TestsPerformed" -> "TestsPerformed::"
      [] fid = "AdditionalNotes" -> "Additional Notes:"

\* "\n".join(f"{label}: {txt}" for label, txt in fields.items() if txt)
RECURSIVE JoinFields(_, _)
JoinFields(fields, i) ==
    IF i > Len(FieldIds) THEN <<>>
    ELSE LET fid  == FieldIds[i]
             rest == JoinFields(fields, i + 1)
         IN IF fields[fid] = <<>> THEN rest
            ELSE <<Label(fid)>> \o fields[fid] \o (IF rest = <<>> THEN <<>> ELSE <<"\n">> \o rest)

\* The work order page: whether #AdditionalNotes appears, the value of each of
\* the four textareas, and the textareas whose read raises.
NotesPage(present, val, unreadable) == [present |-> present, val |-> val, unreadable |-> unreadable]

extract_work_order_notes(page) ==
    IF ~page.present THEN [fields |-> <<>>, combined |-> <<>>]
    ELSE LET fields == [fid \in {FieldIds[i] : i \in 1..Len(FieldIds)} |->
                           IF fid \in page.unreadable THEN <<>> ELSE StripToks(page.val[fid])]
         IN [fields |-> fields, combined |-> StripToks(JoinFields(fields, 1))]

\* dict.get(key, default)
DictGet(d, key, default) == IF key \in DOMAIN d THEN d[key] ELSE default

\* the first position from i on that is not a line break
RECURSIVE SkipBreaks(_, _)
SkipBreaks(text, i) ==
    IF i <= Len(text) /\ text[i] = "\n" THEN SkipBreaks(text, i + 1) ELSE i

\* the words from i up to the next delimiter
RECURSIVE UpToDelim(_, _)
UpToDelim(text, i) ==
    IF i > Len(text) \/ text[i] \in Delims THEN <<>>
    ELSE <<text[i]>> \o UpToDelim(text, i + 1)

\* the first position of the segment that holds position i
RECURSIVE SegmentStart(_, _)
SegmentStart(text, i) ==
    IF i = 1 \/ text[i - 1] \in Delims THEN i ELSE SegmentStart(text, i - 1)

\* re.search(r"damage caused by\s+([^.,\n]+)", text): the positions where it
\* matches, and group 1 of the leftmost match
DamageAt(text) ==
    {i \in 1..Len(text) : /\ text[i] = "damage caused by"
                          /\ UpToDelim(text, SkipBreaks(text, i + 1)) # <<>>}

DamageCapture(text) ==
    LET i == CHOOSE k \in DamageAt(text) : \A j \in DamageAt(text) : k <= j
    IN UpToDelim(text, SkipBreaks(text, i + 1))

\* re.search(r"([^.,\n]+?)\s+responsible", text): a "responsible" with a word
\* before it in its segment; group 1 runs from the start of that segment
ResponsibleAt(text) ==
    {i \in 1..Len(text) : text[i] = "responsible" /\ SegmentStart(text, i) < i}

ResponsibleCapture(text) ==
    LET i == CHOOSE k \in ResponsibleAt(text) : \A j \in ResponsibleAt(text) : k <= j
    IN SubSeq(text, SegmentStart(text, i), i - 1)

\* "brightspeed" in text or "bright speed" in text
MentionsBrightspeed(text) ==
    \E i \in 1..Len(text) : text[i] \in {"brightspeed", "bright speed"}

\* RESPONSIBLE PARTY: the Brightspeed override stands in the else branch of
\* the test of "damage caused by"
ResponsibleParty(combined) ==
    LET text == LowerToks(combined)
    IN IF DamageAt(text) # {} THEN DamageCapture(text)
       ELSE IF MentionsBrightspeed(text) THEN <<"Brightspeed">>
       ELSE IF ResponsibleAt(text) # {} THEN ResponsibleCapture(text)
       ELSE <<"Customer">>

\* [line.strip() for line in equipment_raw.splitlines() if line.strip()]
EquipmentLines(equipment_raw) ==
    LET lines == SplitLines(equipment_raw)
    IN SelectSeq([i \in 1..Len(lines) |-> StripToks(lines[i])], LAMBDA line : line # <<>>)

\* NotesPart with every line of the equipment text kept
NotesPartKeepingBlanks(page) ==
    LET notes == extract_work_order_notes(page)
        equipment_raw == DictGet(notes.fields, "EquipmentInstalled", <<>>)
    IN [fn |-> "notes",
        fields |-> notes.fields,
        combined |-> notes.combined,
        work_done |-> StripToks(DictGet(notes.fields, "AdditionalNotes", notes.combined)),
        equipment |-> SplitLines(equipment_raw),
        responsible |-> ResponsibleParty(notes.combined)]

\* the lines of format_dispatch_summary that read the notes
NotesPart(page) ==
    LET notes == extract_work_order_notes(page)
        equipment_raw == DictGet(notes.fields, "EquipmentInstalled", <<>>)
    IN [fn |-> "notes",
        fields |-> notes.fields,
        combined |-> notes.combined,
        work_done |-> StripToks(DictGet(notes.fields, "AdditionalNotes", notes.combined)),
        equipment |-> EquipmentLines(equipment_raw),
        responsible |-> ResponsibleParty(notes.combined)]

NoteTexts ==
    { <<>>,
      <<"Replaced", "ONT">>,
      <<"\n", "ONT", "\n", "\n", "drop", "\n">>,
      <<"Damage caused by", "Contractor", ".", "Replaced", "drop">>,
      <<"Damage caused by", "Contractor", ",", "Bright Speed", "line">>,
      <<"Damage caused by", ".">>,
      <<"Contractor", "responsible", ".">>,
      <<"Brightspeed", "responsible">>,
      <<"Brightspeed", "cut", "drop">> }

NotesPages ==
    { NotesPage(present,
                [EquipmentInstalled |-> e, AdditionalMaterials |-> m,
                 TestsPerformed |-> t, AdditionalNotes |-> a], u) :
        present \in BOOLEAN, e \in NoteTexts, a \in NoteTexts,
        m \in {<<>>, <<"Replaced", "ONT">>},
        t \in {<<>>, <<"Contractor", "responsible", ".">>},
        u \in {{}, {"AdditionalNotes"}, {"EquipmentInstalled"}} }

\* the state of a function-level specification before its call
InitCall(a) ==
    /\ due = <<>>
    /\ idx = 1
    /\ pc = "call"
    /\ cur = CurIdle
    /\ form = [t \in TaskIds |-> NotLoaded]
    /\ results = <<>>
    /\ errors = <<>>
    /\ attempted = <<>>
    /\ attempts = [t \in TaskIds |-> 0]
    /\ finLog = <<>>
    /\ DRY_RUN = FALSE
    /\ proc = ProcInRun
    /\ arg = a
    /\ res = NoCall

\* the call returns (or raises): res holds the outcome
Returns(r) ==
    /\ pc = "call"
    /\ res' = r
    /\ pc' = "returned"
    /\ UNCHANGED <<due, idx, cur, form, results, errors, attempted, attempts, finLog,
                   DRY_RUN, proc, arg>>

InitNotes == \E page \in NotesPages : InitCall(page)

ReadNotes == Returns(NotesPart(arg))

NextNotes == ReadNotes

SpecNotes == InitNotes /\ [][NextNotes]_vars

----------------------------------------------------------------------------
(* The timestamps of a work order: the part of format_dispatch_summary     *)
(* that validates the four raw strings and computes the billable hours.    *)
(* The raw strings are sequences of characters.                            *)

IsDigit(c) == c \in {"0", "1", "2", "3", "4", "5", "6", "7", "8", "9"}

DigitVal(c) ==
    CASE c = "0" -> 0 [] c = "1" -> 1 [] c = "2" -> 2 [] c = "3" -> 3 [] c = "4" -> 4
      [] c = "5" -> 5 [] c = "6" -> 6 [] c = "7" -> 7 [] c = "8" -> 8 [] c = "9" -> 9

\* int(s) for a string of digits
RECURSIVE Num(_)
Num(s) == IF s = <<>> THEN 0 ELSE 10 * Num(SubSeq(s, 1, Len(s) - 1)) + DigitVal(s[Len(s)])

AllDigits(s, from, to) == \A i \in from..to : IsDigit(s[i])

\* re.match(r"\d{4}-\d{2}-\d{2}", s): a match at the start of s
MatchDate(s) ==
    /\ Len(s) >= 10
    /\ AllDigits(s, 1, 4) /\ s[5] = "-" /\ AllDigits(s, 6, 7) /\ s[8] = "-" /\ AllDigits(s, 9, 10)

\* re.match(r"\d{1,2}:\d{2}", s): a match at the start of s
MatchTime(s) ==
    \/ Len(s) >= 5 /\ AllDigits(s, 1, 2) /\ s[3] = ":" /\ AllDigits(s, 4, 5)
    \/ Len(s) >= 4 /\ IsDigit(s[1]) /\ s[2] = ":" /\ AllDigits(s, 3, 4)

\* the position of ":" in a string MatchTime accepts
ColonAt(s) == IF s[2] = ":" THEN 2 ELSE 3

IsLeap(y) == y % 4 = 0 /\ (y % 100 # 0 \/ y % 400 = 0)

DaysInMonth(y, m) ==
    IF m = 2 THEN (IF IsLeap(y) THEN 29 ELSE 28)
    ELSE IF m \in {4, 6, 9, 11} THEN 30 ELSE 31

RECURSIVE DaysBeforeMonth(_, _)
DaysBeforeMonth(y, m) == IF m = 1 THEN 0 ELSE DaysBeforeMonth(y, m - 1) + DaysInMonth(y, m - 1)

\* date.toordinal
Ordinal(y, m, d) ==
    LET y1 == y - 1
    IN y1 * 365 + (y1 \div 4) - (y1 \div 100) + (y1 \div 400) + DaysBeforeMonth(y, m) + d

\* datetime.strptime(f"{date} {time}", "%Y-%m-%d %H:%M") does not raise: the
\* whole string is consumed by the format and the fields are in range
StrptimeOk(date, time) ==
    /\ MatchDate(date) /\ Len(date) = 10
    /\ Num(SubSeq(date, 1, 4)) >= 1
    /\ Num(SubSeq(date, 6, 7)) \in 1..12
    /\ Num(SubSeq(date, 9, 10)) \in 1..DaysInMonth(Num(SubSeq(date, 1, 4)), Num(SubSeq(date, 6, 7)))
    /\ MatchTime(time) /\ Len(time) = ColonAt(time) + 2
    /\ Num(SubSeq(time, 1, ColonAt(time) - 1)) <= 23
    /\ Num(SubSeq(time, ColonAt(time) + 1, Len(time))) <= 59

\* the datetime strptime returns, as a day and a minute of the day
Strptime(date, time) ==
    [day |-> Ordinal(Num(SubSeq(date, 1, 4)), Num(SubSeq(date, 6, 7)), Num(SubSeq(date, 9, 10))),
     minute |-> 60 * Num(SubSeq(time, 1, ColonAt(time) - 1))
                + Num(SubSeq(time, ColonAt(time) + 1, Len(time)))]

\* (t_dep - t_arr).total_seconds() / 60: both datetimes have whole minutes
MinutesBetween(t_arr, t_dep) == (t_dep.day - t_arr.day) * 1440 + (t_dep.minute - t_arr.minute)

\* a rounding that drops the fraction
RoundDown(n, den) == n \div den

\* round(n / den) for n >= 0: to the nearest integer, a tie to the even one
RoundHalfEven(n, den) ==
    LET q == n \div den
        r == n % den
    IN IF 2 * r < den THEN q
       ELSE IF 2 * r > den THEN q + 1
       ELSE IF q % 2 = 0 THEN q ELSE q + 1

\* hours = max(hours, 1.0); round(hours * 4), with hours = d / 60
Quarters(d) == RoundHalfEven(IF d > 60 THEN d ELSE 60, 15)

\* f"{quarters / 4:.2f}", as the integer part and the two decimals
Fmt2(quarters) == <<quarters \div 4, 25 * (quarters % 4)>>

NotGiven == <<"not given">>

\* the endpoint passes the test of the display value
EndpointShown(date, time) == date # <<>> /\ MatchDate(date) /\ time # <<>> /\ MatchTime(time)

\* lines 356-379 of format_dispatch_summary
HoursPart(a) ==
    LET arr_display == IF EndpointShown(a.arr_date, a.arr_time) THEN a.arr_time ELSE NotGiven
        dep_display == IF EndpointShown(a.dep_date, a.dep_time) THEN a.dep_time ELSE NotGiven
        out(raised, total) ==
            [fn |-> "hours", raised |-> raised, arr_display |-> arr_display,
             dep_display |-> dep_display, total_display |-> total]
    IN IF arr_display # NotGiven /\ dep_display # NotGiven
       THEN IF StrptimeOk(a.arr_date, a.arr_time) /\ StrptimeOk(a.dep_date, a.dep_time)
            THEN out(FALSE, Fmt2(Quarters(MinutesBetween(Strptime(a.arr_date, a.arr_time),
                                                         Strptime(a.dep_date, a.dep_time)))))
            ELSE out(TRUE, <<>>)
       ELSE out(FALSE, Fmt2(4))

RawDates ==
    { <<>>,
      <<"2", "0", "2", "4", "-", "0", "1", "-", "0", "1">>,
      <<"2", "0", "2", "4", "-", "0", "1", "-", "0", "2">>,
      <<"2", "0", "2", "4", "-", "0", "2", "-", "3", "0">>,
      <<"2", "0", "2", "4", "-", "0", "1", "-", "0", "1", "x">>,
      <<"0", "1", "/", "0", "1", "/", "2", "0", "2", "4">> }

RawTimes ==
    { <<>>,
      <<"0", "8", ":", "0", "0">>,
      <<"8", ":", "5", "0">>,
      <<"0", "9", ":", "0", "7">>,
      <<"0", "9", ":", "0", "8">>,
      <<"1", "1", ":", "1", "0">>,
      <<"2", "5", ":", "0", "0">>,
      <<"0", "8", ":", "6", "0">>,
      <<"0", "8", ":", "0", "0", " ", "A", "M">>,
      <<"8", "a", "m">> }

InitHours ==
    \E ad \in RawDates, at \in RawTimes, dd \in RawDates, dt \in RawTimes :
        InitCall([arr_date |-> ad, arr_time |-> at, dep_date |-> dd, dep_time |-> dt])

ComputeHours == Returns(HoursPart(arg))

NextHours == ComputeHours

SpecHours == InitHours /\ [][NextHours]_vars

----------------------------------------------------------------------------
(* format_dispatch_summary from the reading of the times on: the work      *)
(* order was found and is complete, and the summary list is built from the *)
(* four time fields and the notes page.                                    *)

EquipmentTexts ==
    { <<>>,
      <<"\n", " ", "\n">>,
      <<"ONT">>,
      <<"ONT", "\n", "router">>,
      <<"ONT", "\n", "\n", "router", "\n", " ", "\n", "drop">>,
      <<" ", "ONT", " ", "\n", "\t", "router", "\n">>,
      <<"router", "\n", "ONT", "\n", "router">>,
      <<"ONT", "router">> }

BlockPages ==
    { NotesPage(present,
                [EquipmentInstalled |-> e, AdditionalMaterials |-> <<>>,
                 TestsPerformed |-> <<>>, AdditionalNotes |-> a], u) :
        present \in BOOLEAN, e \in EquipmentTexts,
        a \in {<<>>, <<"Replaced", "drop">>, <<"Replaced", "\n", "\n", "drop">>},
        u \in {{}, {"AdditionalNotes"}, {"EquipmentInstalled"}} }

\* the four time fields: a stay of 3 h 10 min, no departure, an hour strptime rejects
BlockHours ==
    { [arr_date |-> <<"2", "0", "2", "4", "-", "0", "1", "-", "0", "1">>,
       arr_time |-> <<"0", "8", ":", "0", "0">>,
       dep_date |-> <<"2", "0", "2", "4", "-", "0", "1", "-", "0", "1">>,
       dep_time |-> t] :
        t \in { <<"1", "1", ":", "1", "0">>, <<>>, <<"2", "5", ":", "0", "0">> } }

\* lines 359-426: the summary list, or the exception strptime raised
SummaryList(a) ==
    LET h == HoursPart(a.hours)
        n == NotesPart(a.page)
    IN IF h.raised THEN Raise("ValueError")
       ELSE Ret(SummaryBlock(a.ci, a.wo_number, a.wo_url,
                             [arr_display |-> h.arr_display, dep_display |-> h.dep_display,
                              total_display |-> h.total_display, work_done |-> n.work_done,
                              equipment |-> n.equipment, responsible |-> n.responsible]))

InitBlock ==
    \E page \in BlockPages, hours \in BlockHours :
        InitCall([page |-> page, hours |-> hours,
                  ci |-> [customer_name |-> <<"customer", 1>>, cid |-> 1],
                  wo_number |-> 7, wo_url |-> WoLink(7)])

BuildBlock == Returns([fn |-> "summary", out |-> SummaryList(arg)])

NextBlock == BuildBlock

SpecBlock == InitBlock /\ [][NextBlock]_vars

----------------------------------------------------------------------------
(* get_dispatch_work_order_url on its own: any table of at most MaxRows    *)
(* rows, called as format_dispatch_summary calls it.                       *)

MaxRows == 3

RowKinds ==
    { Row(5, FALSE, 0, 0), Row(5, TRUE, 5, 0), Row(5, TRUE, 7, 12), Row(5, TRUE, 9, 12),
      Row(5, TRUE, 13, 123), Row(5, TRUE, 8, 45), Row(4, TRUE, 11, 12) }

SelectTables ==
    UNION { {Table(TRUE, rows) : rows \in [1..n -> RowKinds]} : n \in 0..MaxRows }

SelectTickets == {12, 123}

InitSelect ==
    \E table \in SelectTables \cup {Table(FALSE, <<>>)}, ticket_number \in SelectTickets :
        InitCall([table |-> table, ticket_number |-> ticket_number])

SelectWorkOrder ==
    Returns([fn |-> "select", out |-> get_dispatch_work_order_url(arg.table, arg.ticket_number)])

NextSelect == SelectWorkOrder

SpecSelect == InitSelect /\ [][NextSelect]_vars

----------------------------------------------------------------------------
(* The idempotency guard: notes_already_contain_summary and the two        *)
(* functions it normalizes with.  A text is a sequence of tokens: words,   *)
(* the marker "CUSTOMER:", HTML tags, and the white space " ", "\t", "\n". *)

BrTags == {"<br>", "<br/>", "<BR />"}
OtherTags == {"<b>", "</b>", "<td class='n'>"}
Blanks == {" ", "\t"}
WhiteSpace == {" ", "\t", "\n"}

\* re.sub(r"<br\s*/?>", "\n", text, flags=re.IGNORECASE)
BrToNewline(text) == [i \in 1..Len(text) |-> IF text[i] \in BrTags THEN "\n" ELSE text[i]]

\* re.sub(r"<[^>]+>", "", text)
DropTags(text) == SelectSeq(text, LAMBDA t : t \notin BrTags \cup OtherTags)

\* re.sub(r"[ \t]+", " ", text)
RECURSIVE CollapseBlanks(_)
CollapseBlanks(text) ==
    IF text = <<>> THEN <<>>
    ELSE IF Head(text) \in Blanks
         THEN IF Len(text) > 1 /\ text[2] \in Blanks
              THEN CollapseBlanks(Tail(text))
              ELSE <<" ">> \o CollapseBlanks(Tail(text))
         ELSE <<Head(text)>> \o CollapseBlanks(Tail(text))

\* re.sub(r"\n+", "\n", text)
RECURSIVE CollapseNewlines(_)
CollapseNewlines(text) ==
    IF text = <<>> THEN <<>>
    ELSE IF Head(text) = "\n" /\ Len(text) > 1 /\ text[2] = "\n"
         THEN CollapseNewlines(Tail(text))
         ELSE <<Head(text)>> \o CollapseNewlines(Tail(text))

\* str.strip on a text
RECURSIVE StripText(_)
StripText(text) ==
    IF text = <<>> THEN text
    ELSE IF Head(text) \in WhiteSpace THEN StripText(Tail(text))
    ELSE IF text[Len(text)] \in WhiteSpace THEN StripText(SubSeq(text, 1, Len(text) - 1))
    ELSE text

normalize_note_content(text) ==
    IF text = <<>> THEN <<>>
    ELSE StripText(CollapseNewlines(CollapseBlanks(DropTags(BrToNewline(text)))))

extract_static_summary_block(summary_text) ==
    IF \E i \in 1..Len(summary_text) : summary_text[i] = "CUSTOMER:"
    THEN LET at == CHOOSE i \in 1..Len(summary_text) :
                       /\ summary_text[i] = "CUSTOMER:"
                       /\ \A j \in 1..(i - 1) : summary_text[j] # "CUSTOMER:"
         IN StripText(SubSeq(summary_text, at, Len(summary_text)))
    ELSE StripText(summary_text)

\* summary in notes
IsSubstring(a, b) == \E i \in 0..(Len(b) - Len(a)) : SubSeq(b, i + 1, i + Len(a)) = a

\* The page: readable is FALSE when the locator of the notes cell or its
\* inner_html raises.
GuardArg(readable, notes_html, summary_text) ==
    [readable |-> readable, notes_html |-> notes_html, summary_text |-> summary_text]

\* the guard without its test of an empty summary
notes_contain_summary_unguarded(a) ==
    IF ~a.readable THEN FALSE
    ELSE IsSubstring(normalize_note_content(extract_static_summary_block(a.summary_text)),
                     normalize_note_content(a.notes_html))

notes_already_contain_summary(a) ==
    IF ~a.readable THEN FALSE
    ELSE LET notes   == normalize_note_content(a.notes_html)
             summary == normalize_note_content(extract_static_summary_block(a.summary_text))
         IN summary # <<>> /\ IsSubstring(summary, notes)

GuardSummaries ==
    { <<>>,
      <<" ", "\n">>,
      <<"<b>", "</b>">>,
      <<"x">>,
      <<"CUSTOMER:", " ", "x">>,
      <<"CUSTOMER:", " ", "y">>,
      <<"wrapper", "\n", "CUSTOMER:", " ", "x">>,
      <<"CUSTOMER:", "\t", " ", "x", " ", "\n">>,
      <<"CUSTOMER:", " ", "x", "\n", "\n", "y">>,
      <<"CUSTOMER:", " ", "x", "\n", "CUSTOMER:", " ", "y">> }

\* the cell the locator finds contains "CUSTOMER:"
GuardNotes ==
    { <<"CUSTOMER:", " ", "x">>,
      <<"CUSTOMER:", " ", "y">>,
      <<"CUSTOMER:", "<br>", "x">>,
      <<"<b>", "CUSTOMER:", "</b>", " ", "x", "<br>", "<br/>", "y">>,
      <<"old", "<BR />", "CUSTOMER:", " ", "\t", "x", "<br>">>,
      <<"<td class='n'>", "CUSTOMER:", " ", "x", "\n", "CUSTOMER:", " ", "y">>,
      <<"x", " ", "CUSTOMER:">> }

InitGuard ==
    \E s \in GuardSummaries :
        \/ \E n \in GuardNotes : InitCall(GuardArg(TRUE, n, s))
        \/ InitCall(GuardArg(FALSE, <<>>, s))

CallGuard == Returns([fn |-> "guard", found |-> notes_already_contain_summary(arg)])

NextGuard == CallGuard

SpecGuard == InitGuard /\ [][NextGuard]_vars

----------------------------------------------------------------------------
(* The task feed: extract_due_consultation_tasks and parse_task_row.       *)

MaxFeedRows == 2

\* str.lower on a word of a description
LowerWord(w) ==
    CASE w = "Consultation" -> "consultation"
      [] w = "CONSULTATION" -> "consultation"
      [] w = "Install" -> "install"
      [] w = "Pre-Consultation" -> "pre-consultation"
      [] OTHER -> w

\* "consultation" in desc.lower()
ContainsConsultation(desc) ==
    \E i \in 1..Len(desc) : LowerWord(desc[i]) \in {"consultation", "pre-consultation"}

\* A row of the task list: tds cells; whether the reads of parse_task_row
\* succeed; the href and the description; whether the due cell can be read,
\* and its text.
FeedRow(tds, readable, url, desc, dueReadable, due_str) ==
    [tds |-> tds, readable |-> readable, url |-> url, desc |-> desc,
     dueReadable |-> dueReadable, due_str |-> due_str]

NoTask == [isNone |-> TRUE, url |-> 0, desc |-> <<>>]

parse_task_row(row) ==
    IF row.tds < 6 \/ ~row.readable THEN NoTask
    ELSE [isNone |-> FALSE, url |-> row.url, desc |-> row.desc]

\* the positions of "-" in a string
Dashes(s) == {i \in 1..Len(s) : s[i] = "-"}

\* datetime.strptime(due_str, "%Y-%m-%d") does not raise: four digits, one or
\* two digits, one or two digits, and a date of the calendar
DateParses(s) ==
    /\ Len(s) \in 8..10
    /\ s[5] = "-" /\ AllDigits(s, 1, 4)
    /\ Cardinality(Dashes(s)) = 2
    /\ LET d2 == CHOOSE i \in Dashes(s) : i > 5
           mm == SubSeq(s, 6, d2 - 1)
           dd == SubSeq(s, d2 + 1, Len(s))
       IN /\ Len(mm) \in 1..2 /\ Len(dd) \in 1..2
          /\ AllDigits(mm, 1, Len(mm)) /\ AllDigits(dd, 1, Len(dd))
          /\ Num(SubSeq(s, 1, 4)) >= 1
          /\ Num(mm) \in 1..12
          /\ Num(dd) \in 1..DaysInMonth(Num(SubSeq(s, 1, 4)), Num(mm))

\* datetime.strptime(due_str, "%Y-%m-%d").date(), as the ordinal of the day
ParseDate(s) ==
    LET d2 == CHOOSE i \in Dashes(s) : i > 5
    IN Ordinal(Num(SubSeq(s, 1, 4)), Num(SubSeq(s, 6, d2 - 1)), Num(SubSeq(s, d2 + 1, Len(s))))

\* a test that also drops the tasks due today
DueAfterOrOn(due_dt, today) == due_dt >= today

\* due_dt > today
DueAfter(due_dt, today) == due_dt > today

\* The for loop of extract_due_consultation_tasks from row i on; bound tells
\* whether the name due_str is bound.  The except clause formats due_str into
\* its message: while the name is unbound that read raises
\* UnboundLocalError, which leaves the function.
RECURSIVE DueLoop(_, _, _, _, _)
DueLoop(rows, i, today, found, bound) ==
    IF i > Len(rows) THEN Ret(found)
    ELSE LET row  == rows[i]
             task == parse_task_row(row)
         IN IF task.isNone \/ ~ContainsConsultation(task.desc)
            THEN DueLoop(rows, i + 1, today, found, bound)
            ELSE IF ~row.dueReadable
            THEN IF bound THEN DueLoop(rows, i + 1, today, found, bound)
                 ELSE Raise("UnboundLocalError")
            ELSE IF ~DateParses(row.due_str)
            THEN DueLoop(rows, i + 1, today, found, TRUE)
            ELSE IF DueAfter(ParseDate(row.due_str), today)
            THEN DueLoop(rows, i + 1, today, found, TRUE)
            ELSE DueLoop(rows, i + 1, today, Append(found, task), TRUE)

\* page.goto(TASK_URL) and the waits before the loop may raise
extract_due_consultation_tasks(a) ==
    IF ~a.navOk THEN Raise("PlaywrightError")
    ELSE DueLoop(a.rows, 1, a.today, <<>>, FALSE)

DueStrings ==
    { <<"2", "0", "2", "4", "-", "0", "1", "-", "0", "1">>,
      <<"2", "0", "2", "4", "-", "0", "1", "-", "0", "2">>,
      <<"2", "0", "2", "4", "-", "0", "1", "-", "0", "3">>,
      <<"2", "0", "2", "4", "-", "1", "-", "2">>,
      <<"2", "0", "2", "4", "-", "0", "2", "-", "3", "0">>,
      <<"t", "o", "m", "o", "r", "r", "o", "w">>,
      <<>> }

FeedRowKinds ==
    {FeedRow(6, TRUE, 1, <<"Consultation">>, TRUE, d) : d \in DueStrings}
    \cup {FeedRow(6, TRUE, 2, <<"Pre-Consultation", "call">>, FALSE, <<>>),
          FeedRow(6, TRUE, 3, <<"CONSULTATION">>, TRUE, <<"2", "0", "2", "4", "-", "0", "1", "-", "0", "1">>),
          FeedRow(6, TRUE, 4, <<"Install">>, TRUE, <<"2", "0", "2", "4", "-", "0", "1", "-", "0", "1">>),
          FeedRow(6, TRUE, 5, <<"Install">>, FALSE, <<>>),
          FeedRow(5, TRUE, 6, <<"Consultation">>, TRUE, <<"2", "0", "2", "4", "-", "0", "1", "-", "0", "1">>),
          FeedRow(6, FALSE, 7, <<"Consultation">>, TRUE, <<"2", "0", "2", "4", "-", "0", "1", "-", "0", "1">>)}

\* date.today(): the second or the third of January 2024
Todays == {Ordinal(2024, 1, 2), Ordinal(2024, 1, 3)}

InitFeed ==
    \E n \in 0..MaxFeedRows, navOk \in BOOLEAN, today \in Todays :
        \E rows \in [1..n -> FeedRowKinds] :
            /\ navOk \/ n = 0
            /\ InitCall([navOk |-> navOk, today |-> today, rows |-> rows])

ExtractDue == Returns([fn |-> "feed", out |-> extract_due_consultation_tasks(arg)])

NextFeed == ExtractDue

SpecFeed == InitFeed /\ [][NextFeed]_vars

----------------------------------------------------------------------------
(* The two classifiers on their own.  For a blank job type extractOne is   *)
(* not called: the scores drawn with it stand for what the keyword sets    *)
(* would have scored.                                                      *)

Scores == {0, 45, 90, 91, 100}

ClassifyInputs ==
    JobInputs \cup {[job_type |-> j, free |-> f, bill |-> b] :
                       j \in {"", None}, f \in Scores, b \in Scores}

InitClassify == \E j \in ClassifyInputs : InitCall(j)

Classify ==
    Returns([fn |-> "classify",
             free |-> is_free_job(arg.job_type, arg.free),
             bill |-> is_billable_job(arg.job_type, arg.bill)])

NextClassify == Classify

SpecClassify == InitClassify /\ [][NextClassify]_vars

----------------------------------------------------------------------------
(* Properties *)

TasksIn(seq, field) == {seq[i][field] : i \in 1..Len(seq)}

\* C1: failure isolation in run_with_progress.  Whatever step of whatever task
\* raises, the tasks whose loop body was entered are always a prefix of the due
\* tasks in feed order, the loop is never stuck before it returns, and when it
\* returns every due task has been attempted exactly once, in feed order, with
\* at most one error entry per task.
C1_FailureIsolation ==
    /\ Len(attempted) <= Len(due)
    /\ attempted = SubSeq(due, 1, Len(attempted))
    /\ pc # "done" => ENABLED Next
    /\ pc = "done" => /\ attempted = due
                      /\ Len(errors) <= Len(due)
                      /\ \A i, j \in 1..Len(errors) : i < j => errors[i].Task < errors[j].Task

\* C1 witness: the run has returned; the first task raised and was recorded in
\* errors, and the second task was processed to success after it.
C1_Witness ==
    /\ pc = "done"
    /\ Len(due) >= 2
    /\ errors # <<>> /\ errors[1].Task = due[1]
    /\ results # <<>> /\ results[1].TaskID = due[2]

\* C2 (the claim as stated): of two successive applications of finalize_task
\* with the same summary, the first starting from notes that do not hold the
\* summary and performing the write, the second performs no write: it neither
\* fills the notes nor clicks submit.
C2_SecondCallSkipped ==
    \A i \in 1..(Len(finLog) - 1) :
        ( /\ finLog[i].summary_text = finLog[i + 1].summary_text
          /\ finLog[i].before.notes # finLog[i].summary_text
          /\ finLog[i].ok )
        => finLog[i + 1].after = finLog[i + 1].before

\* C3 (the claim as stated): a task whose write attempt failed has had exactly
\* two attempts when its processing ends, and no task ever has more than two.
C3_RetriedOnce ==
    /\ (pc = "next" /\ cur.finalized /\ ~cur.success) => attempts[cur.task] = 2
    /\ \A t \in TaskIds : attempts[t] <= 2

\* C4 (the claim as stated): SpawnBillingTask is checked only for a task whose
\* job type is Billable: the Free best score is not above 90 and the Billable
\* best score is.
C4_BillingOnlyBillable ==
    cur.toggledBilling => (cur.freeScore <= 90 /\ cur.billScore > 90)

\* the three-way decision of the claim
ClaimedPath(freeScore, billScore) ==
    IF freeScore > 90 THEN "Free"
    ELSE IF billScore > 90 THEN "Billable"
    ELSE "NotesOnly"

\* C5 (the claim as stated): the path on which a task is finalized is the
\* three-way function of the two scores: Free, Billable or NotesOnly.
C5_ThreeWayDecision ==
    cur.finalized => Mode(cur.is_free) = ClaimedPath(cur.freeScore, cur.billScore)

\* C6 (the claim as stated): a Free task without prior notes for which the
\* summary builder returned no summary ends its processing completed: the
\* completed indicator is set and the form was submitted.
C6_FreeNeedsNoSummary ==
    (pc = "next" /\ cur.is_free /\ cur.outcome = "skipped_nosummary")
    => (form[cur.task].completed /\ form[cur.task].submits > 0)

FreeNote(job_type) == << <<job_type, ", no charge">> >>

\* C7 (the claim as stated): the text filled into the notes field of a Free
\* task is "<job_type>, no charge".
C7_FreeNoteText ==
    (cur.finalized /\ cur.is_free /\ form[cur.task].notes # cur.form0.notes)
    => form[cur.task].notes = FreeNote(cur.job_type)

\* C8: when the status read from the selected work order does not normalize
\* (trim, lowercase) to "complete" or "completed", a Billable or Unknown task
\* ends its processing skipped with no summary: its form is untouched, no
\* finalize_task call was made, and it is in neither results nor errors.
C8_NotCompleteSkips ==
    (pc = "next" /\ cur.statusRead /\ ~cur.is_free
        /\ Lower(Strip(cur.status)) \notin CompleteWords)
    => /\ cur.summary_text = NoSummary
       /\ cur.outcome = "skipped_nosummary"
       /\ form[cur.task] = cur.form0
       /\ attempts[cur.task] = 0
       /\ cur.task \notin TasksIn(results, "TaskID")
       /\ cur.task \notin TasksIn(errors, "Task")

\* C8 witness: a task that is not Free was skipped on a work order whose
\* status reads "Pending".
C8_Witness ==
    /\ pc = "next"
    /\ cur.statusRead
    /\ cur.status = <<"P","e","n","d","i","n","g">>
    /\ ~cur.is_free
    /\ cur.outcome = "skipped_nosummary"

\* the table has no row whose description cites the ticket
NoRowCites(table, ticket) == \A i \in 1..Len(table.rows) : table.rows[i].ref # ticket

\* C9 (the claim as stated): when the work-order table is missing, empty or
\* has no row for the ticket, the task is skipped and not recorded as an error.
C9_UnresolvedIsSkip ==
    (pc = "next" /\ cur.tableRead
        /\ (~cur.table.present \/ cur.table.rows = <<>> \/ NoRowCites(cur.table, cur.ci.ticket)))
    => /\ cur.outcome = "skipped_nosummary"
       /\ cur.task \notin TasksIn(errors, "Task")

\* C10 (the claim as stated): when the "Dispatch for Ticket" element is absent
\* the summary builder returns no summary, so the task is skipped and nothing
\* is raised.
C10_NoTicketIsSkip ==
    (pc = "next" /\ cur.pageRead /\ cur.page.custOk /\ ~cur.page.ticketEl)
    => /\ cur.outcome = "skipped_nosummary"
       /\ cur.task \notin TasksIn(errors, "Task")

\* C11: dry-run mode.  Whenever DRY_RUN is set, the write step of a task is a
\* notes-only update: no call of the run toggles the completed checkbox or the
\* SpawnBillingTask checkbox, and no form ends up with either of them checked
\* by the run.
C11_DryRunNotesOnly ==
    DRY_RUN => /\ ~cur.toggledCompleted
               /\ ~cur.toggledBilling

\* C12: outcome accounting.  When the iteration of a due task ends, the task
\* is counted in exactly one of succeeded (an entry of results), skipped (the
\* iteration ended by continue, nothing written) and failed (an entry of
\* errors); a task whose completion write failed is in errors; and at the end
\* of the run the three counts add up to the number of due tasks, so results
\* and errors together never hold more entries than there are due tasks.
C12_EveryTaskAccounted ==
    /\ pc = "next" =>
          LET succeeded == cur.task \in TasksIn(results, "TaskID")
              failed    == cur.task \in TasksIn(errors, "Task")
              skipped   == cur.outcome \in {"skipped_notes", "skipped_nosummary"}
          IN /\ succeeded \/ skipped \/ failed
             /\ ~(succeeded /\ skipped) /\ ~(succeeded /\ failed) /\ ~(skipped /\ failed)
             /\ (cur.finalized /\ ~cur.success) => failed
    /\ pc = "done" => Len(results) + Len(errors) <= Len(due)

\* C13: orderly release.  However the main run is left once the browser has
\* been launched (normal completion, an unexpected exception,
\* KeyboardInterrupt, SIGTERM), when the process has exited no browser
\* context is open, the browser is closed and the Playwright runtime is
\* stopped.
C13_ReleasedBeforeExit ==
    proc.pc = "exited" => /\ proc.context # "open"
                          /\ proc.browser = "closed"
                          /\ proc.pw = "stopped"

\* C14: a setup failure is fatal and precedes all task work.  Once the
\* session setup (the driver, handle_login or clear_first_time_overlays) has
\* raised, __main__ is in its except clause, its finally
\* clause or has exited, the due tasks were never asked for, no loop body
\* was entered, no form was read or written, and nothing was recorded.
C14_SetupFailureAborts ==
    proc.setupRaised =>
        /\ proc.pc \in Handlers \cup FinallyClause \cup {"exited"}
        /\ ~proc.discovered
        /\ attempted = <<>>
        /\ \A t \in TaskIds : form[t] = NotLoaded /\ attempts[t] = 0
        /\ results = <<>> /\ errors = <<>>

\* C14 witness: handle_login raised (the driver was built, so its context is
\* the one closed) and the process has exited with its resources released.
C14_Witness ==
    /\ proc.setupRaised
    /\ proc.driver
    /\ proc.pc = "exited"
    /\ proc.context = "closed"
    /\ proc.pw = "stopped"

\* C15: responsible-party precedence.  Whenever "brightspeed" or "bright
\* speed" appears anywhere in the combined notes the responsible party is
\* "Brightspeed", whether or not "damage caused by X" or "X responsible"
\* matched; otherwise it is the "damage caused by" capture if there is one,
\* else the "responsible" capture if there is one, else "Customer".
C15_BrightspeedOverridesAll ==
    res.fn = "notes" =>
        LET text == LowerToks(res.combined)
        IN /\ MentionsBrightspeed(text) => res.responsible = <<"Brightspeed">>
           /\ ~MentionsBrightspeed(text) =>
                 res.responsible =
                     IF DamageAt(text) # {} THEN DamageCapture(text)
                     ELSE IF ResponsibleAt(text) # {} THEN ResponsibleCapture(text)
                     ELSE <<"Customer">>

\* C16: work-done fallback.  The WORK DONE body is the AdditionalNotes text
\* when that is not empty, and the combined note block when AdditionalNotes
\* is empty but another note field has content.
C16_WorkDoneFallsBack ==
    (res.fn = "notes" /\ "AdditionalNotes" \in DOMAIN res.fields) =>
        /\ res.fields["AdditionalNotes"] # <<>> => res.work_done = res.fields["AdditionalNotes"]
        /\ (res.fields["AdditionalNotes"] = <<>> /\ res.combined # <<>>) =>
              res.work_done = res.combined

\* the date is exactly YYYY-MM-DD and the time exactly H:MM or HH:MM with the
\* hour at most 23 and the minute at most 59
ExactEndpoint(date, time) ==
    /\ MatchDate(date) /\ Len(date) = 10
    /\ MatchTime(time) /\ Len(time) = ColonAt(time) + 2
    /\ Num(SubSeq(time, 1, ColonAt(time) - 1)) <= 23
    /\ Num(SubSeq(time, ColonAt(time) + 1, Len(time))) <= 59

\* C17: timestamp validation is total.  An endpoint whose date is not exactly
\* YYYY-MM-DD or whose time is not exactly H:MM/HH:MM (trailing characters
\* and an out-of-range hour or minute included) is shown as "not given", the
\* total is then "1.00", and computing the hours never raises.
C17_ValidationTotal ==
    res.fn = "hours" =>
        /\ ~res.raised
        /\ ~ExactEndpoint(arg.arr_date, arg.arr_time) =>
              res.arr_display = NotGiven /\ res.total_display = <<1, 0>>
        /\ ~ExactEndpoint(arg.dep_date, arg.dep_time) =>
              res.dep_display = NotGiven /\ res.total_display = <<1, 0>>

\* departure minus arrival in whole minutes, for two endpoints strptime parses
ArgMinutes ==
    MinutesBetween(Strptime(arg.arr_date, arg.arr_time), Strptime(arg.dep_date, arg.dep_time))

\* C18: billable hours.  For two valid endpoints with d = departure - arrival
\* in whole minutes (possibly negative), the total is the number of quarter
\* hours nearest to max(d, 60) minutes, divided by 4: a multiple of 0.25 that
\* is at least 1.00 ("1.00" for d = 50, "3.25" for d = 190).
C18_BillableHours ==
    (/\ res.fn = "hours"
     /\ StrptimeOk(arg.arr_date, arg.arr_time)
     /\ StrptimeOk(arg.dep_date, arg.dep_time)) =>
        LET d == ArgMinutes
            m == IF d > 60 THEN d ELSE 60
        IN /\ ~res.raised
           /\ \E q \in 4..(m \div 15 + 1) :
                 /\ 15 * q - m < 8 /\ m - 15 * q < 8
                 /\ res.total_display = <<q \div 4, 25 * (q % 4)>>
           /\ d = 50 => res.total_display = <<1, 0>>
           /\ d = 190 => res.total_display = <<3, 25>>

\* C18 witness: the visit of 190 minutes of the claim, shown as "3.25".
C18_Witness ==
    /\ res.fn = "hours"
    /\ StrptimeOk(arg.arr_date, arg.arr_time)
    /\ StrptimeOk(arg.dep_date, arg.dep_time)
    /\ ArgMinutes = 190
    /\ res.total_display = <<3, 25>>

\* the numbers of the data rows whose description cites exactly ticket n
CitingExactly(table, n) ==
    {table.rows[i].num : i \in {j \in 1..Len(table.rows) :
        table.rows[j].tds >= 5 /\ table.rows[j].digit /\ table.rows[j].ref = n}}

\* C19: work-order selection.  The work order selected for ticket N is the
\* highest work-order number among exactly the rows whose description
\* references ticket N; a row that references another ticket (#123 when N is
\* 12) is never selected.
C19_SelectsAmongExactMatches ==
    (res.fn = "select" /\ res.out.st = "ok") =>
        /\ CitingExactly(arg.table, arg.ticket_number) # {}
        /\ res.out.val.wo_number = MaxOf(CitingExactly(arg.table, arg.ticket_number))

\* the normalized candidate, reduced to its content from the first "CUSTOMER:"
ArgCandidate == normalize_note_content(extract_static_summary_block(arg.summary_text))

\* the normalized existing notes; notes that cannot be read have no content
ArgNotes == IF arg.readable THEN normalize_note_content(arg.notes_html) ELSE <<>>

\* C20 as stated: notes_already_contain_summary returns true iff the
\* normalized candidate (from its first "CUSTOMER:") is a substring of the
\* normalized existing notes, for every pair of inputs, an empty candidate
\* and unreadable notes included.
C20_TrueIffSubstring ==
    res.fn = "guard" => (res.found <=> IsSubstring(ArgCandidate, ArgNotes))

\* C20 amended: notes_already_contain_summary returns true iff the normalized
\* candidate (from its first "CUSTOMER:") is not empty and is a substring of
\* the normalized existing notes; for an empty candidate and for notes that
\* cannot be read it returns false.
C20_TrueIffNonEmptySubstring ==
    res.fn = "guard" =>
        /\ res.found <=> (ArgCandidate # <<>> /\ IsSubstring(ArgCandidate, ArgNotes))
        /\ ArgCandidate = <<>> => ~res.found
        /\ ~arg.readable => ~res.found

\* C20 witness: a candidate that normalizes to nothing, checked against
\* readable notes, is reported as not present.
C20_Witness ==
    /\ res.fn = "guard"
    /\ arg.readable
    /\ arg.summary_text # <<>>
    /\ ArgCandidate = <<>>
    /\ ~res.found

Count(seq, x) == Cardinality({i \in 1..Len(seq) : seq[i] = x})

\* C21: finalizer step order.  In every call of finalize_task that returns
\* True the notes are filled first, the completed checkbox is checked exactly
\* when it was not set (and, when is_free is false, the SpawnBillingTask
\* checkbox exactly when it was not set; never when is_free is true), the
\* click on "Update Task" is the last action and happens exactly once, and a
\* checkbox that was checked before the call is checked after it.
C21_FinalizerStepOrder ==
    \A i \in 1..Len(finLog) :
        LET c == finLog[i]
            a == c.actions
        IN c.ok =>
            /\ a # <<>> /\ a[1] = "fill" /\ Count(a, "fill") = 1
            /\ a[Len(a)] = "submit" /\ Count(a, "submit") = 1
            /\ c.after.notes = c.summary_text
            /\ c.after.submits = c.before.submits + 1
            /\ c.after.completed
            /\ Count(a, "check_completed") = (IF c.before.completed THEN 0 ELSE 1)
            /\ Count(a, "check_billing") = (IF c.is_free \/ c.before.billing THEN 0 ELSE 1)
            /\ c.is_free => c.after.billing = c.before.billing
            /\ ~c.is_free => c.after.billing
            /\ c.before.billing => c.after.billing
            /\ c.before.completed => c.after.completed

\* C21 witness: a successful call with is_free false on a form whose completed
\* checkbox was already set and whose SpawnBillingTask checkbox was not.
C21_Witness ==
    \E i \in 1..Len(finLog) :
        /\ finLog[i].ok
        /\ ~finLog[i].is_free
        /\ finLog[i].before.completed
        /\ ~finLog[i].before.billing
        /\ finLog[i].actions = <<"fill", "check_billing", "submit">>

\* C29: finalize_task never raises: every call returns True or False.  It
\* returns True iff every step up to and including the click on "Update
\* Task" completed, and whenever it returns False that click did not
\* succeed: the form is not submitted by the call, also when the notes were
\* already filled or a checkbox already checked by it.
C29_FalseMeansUnsubmitted ==
    \A i \in 1..Len(finLog) :
        LET c == finLog[i]
        IN /\ c.ok \in BOOLEAN
           /\ c.ok <=> (c.actions # <<>> /\ c.actions[Len(c.actions)] = "submit")
           /\ ~c.ok => /\ Count(c.actions, "submit") = 0
                       /\ c.after.submits = c.before.submits

\* C29 witness: a call that filled the notes and checked the completed
\* checkbox, then failed at the click and returned False.
C29_Witness ==
    \E i \in 1..Len(finLog) :
        /\ ~finLog[i].ok
        /\ ~finLog[i].before.completed
        /\ finLog[i].after.completed
        /\ finLog[i].after.notes = finLog[i].summary_text
        /\ finLog[i].after.notes # finLog[i].before.notes
        /\ finLog[i].after.submits = finLog[i].before.submits

\* C22: an expansion failure is not fatal.  expand_task never lets an
\* exception out, so no iteration ends in the except clause because of it,
\* and after a failed expansion the same task is at its next step, the test
\* of existing notes, still running and with no error recorded for it.
C22_ExpansionFailureContinues ==
    /\ cur.raisedAt # "expand"
    /\ cur.expand # "" => /\ pc = "notes"
                          /\ cur.outcome = "running"
                          /\ cur.task \notin TasksIn(errors, "Task")
                          /\ ENABLED CheckExistingNotes

\* C22 witness: the expansion of a task has failed and the task is at the
\* test of existing notes.
C22_Witness ==
    /\ cur.expand = "failed"
    /\ pc = "notes"
    /\ cur.outcome = "running"

\* the row is a task row about a consultation that is due on or before today
RowIsDue(row, today) ==
    /\ row.tds >= 6 /\ row.readable
    /\ ContainsConsultation(row.desc)
    /\ row.dueReadable /\ DateParses(row.due_str)
    /\ ParseDate(row.due_str) <= today

\* the tasks of the due rows of the feed, in feed order
RECURSIVE DueRows(_, _)
DueRows(rows, today) ==
    IF rows = <<>> THEN <<>>
    ELSE (IF RowIsDue(Head(rows), today)
          THEN <<[isNone |-> FALSE, url |-> Head(rows).url, desc |-> Head(rows).desc]>>
          ELSE <<>>) \o DueRows(Tail(rows), today)

\* C23: task feed filter.  What extract_due_consultation_tasks returns is
\* exactly the feed rows, in feed order, that parse as task rows, whose
\* description contains "consultation" in any case, and whose due date is on
\* or before today; a row due after today or without "consultation" is never
\* returned.
C23_FeedFilter ==
    (res.fn = "feed" /\ res.out.st = "ok") => res.out.val = DueRows(arg.rows, arg.today)

\* C23 witness: a feed of two consultation rows, the first due after today
\* and the second due today, of which the second alone is returned.
C23_Witness ==
    /\ res.fn = "feed" /\ res.out.st = "ok"
    /\ Len(arg.rows) = 2
    /\ ContainsConsultation(arg.rows[1].desc) /\ DateParses(arg.rows[1].due_str)
    /\ ParseDate(arg.rows[1].due_str) > arg.today
    /\ DateParses(arg.rows[2].due_str) /\ ParseDate(arg.rows[2].due_str) = arg.today
    /\ Len(res.out.val) = 1
    /\ res.out.val[1].url = arg.rows[2].url

\* C30: a consultation row whose due date cannot be read or parsed is
\* skipped and discovery goes on with the next row: whether such a row is the
\* first consultation row or a later one, once the task list has loaded the
\* function returns, and it returns the due rows of the feed.
C30_BadDueDateSkipped ==
    (res.fn = "feed" /\ arg.navOk) =>
        /\ res.out.st = "ok"
        /\ res.out.val = DueRows(arg.rows, arg.today)

\* C24: an empty job-type text (the empty string or None) always classifies
\* as Free with score 100 and never as Billable, whatever the keyword sets
\* would have scored.
C24_BlankIsFree ==
    (res.fn = "classify" /\ arg.job_type \in {"", None}) =>
        /\ res.free.flag
        /\ res.free.score = 100
        /\ ~res.bill.flag

\* C24 witness: None classified while the Billable set would have scored 100.
C24_Witness ==
    /\ res.fn = "classify"
    /\ arg.job_type = None
    /\ arg.bill = 100
    /\ res.free.flag
    /\ ~res.bill.flag

\* the EquipmentInstalled text format_dispatch_summary is given: what the page
\* shows, and nothing where the page or the field cannot be read
ArgEquipmentRaw ==
    IF arg.page.present /\ "EquipmentInstalled" \notin arg.page.unreadable
    THEN arg.page.val["EquipmentInstalled"]
    ELSE <<>>

\* the positions of raw that are neither line breaks nor other white space
\* and begin a line's content
ItemStarts(raw) ==
    {i \in 1..Len(raw) :
        /\ ~IsSpace(raw[i])
        /\ \A j \in 1..(i - 1) : (\A k \in j..(i - 1) : raw[k] # "\n") => IsSpace(raw[j])}

\* the item that starts at i: up to the last word before the next line break
ItemAt(raw, i) ==
    LET stop == IF \E k \in i..Len(raw) : raw[k] = "\n"
                THEN (CHOOSE k \in i..Len(raw) :
                         raw[k] = "\n" /\ \A j \in i..(k - 1) : raw[j] # "\n") - 1
                ELSE Len(raw)
        last == CHOOSE k \in i..stop : ~IsSpace(raw[k]) /\ \A j \in (k + 1)..stop : IsSpace(raw[j])
    IN SubSeq(raw, i, last)

\* the k-th smallest element of a set of numbers
RECURSIVE Kth(_, _)
Kth(S, k) ==
    LET m == CHOOSE x \in S : \A y \in S : x <= y
    IN IF k = 1 THEN m ELSE Kth(S \ {m}, k - 1)

\* C25: canonical block order.  Every summary the builder returns is the list
\* CUSTOMER, CID, WORK ORDER NUMBER, WORK ORDER LINK, blank, Arrival Time,
\* Departure Time, blank, Total time of DP, blank, WORK DONE (DISPATCH NOTES)
\* and its body, blank, EQUIPMENT USED, one line per non-blank equipment item
\* in input order, blank, RESPONSIBLE PARTY, for any number of items.
C25_CanonicalBlockOrder ==
    (res.fn = "summary" /\ res.out.st = "ok") =>
        LET s == res.out.val
            starts == ItemStarts(ArgEquipmentRaw)
            n == Cardinality(starts)
        IN /\ Len(s) = 16 + n
           /\ \A i \in 1..Len(s) : Len(s[i]) = (IF i \in {1, 2, 3, 4, 6, 7, 9, 16 + n} THEN 2 ELSE 1)
           /\ s[1][1] = "CUSTOMER: "
           /\ s[2][1] = "CID: "
           /\ s[3][1] = "WORK ORDER NUMBER: "
           /\ s[4][1] = "WORK ORDER LINK: "
           /\ s[5] = <<"">>
           /\ s[6][1] = "Arrival Time: "
           /\ s[7][1] = "Departure Time: "
           /\ s[8] = <<"">>
           /\ s[9][1] = "Total time of DP: "
           /\ s[10] = <<"">>
           /\ s[11] = <<"WORK DONE (DISPATCH NOTES):">>
           /\ s[13] = <<"">>
           /\ s[14] = <<"EQUIPMENT USED:">>
           /\ \A k \in 1..n : s[14 + k][1] = ItemAt(ArgEquipmentRaw, Kth(starts, k))
           /\ s[15 + n] = <<"">>
           /\ s[16 + n][1] = "RESPONSIBLE PARTY: "

\* C25 witness: a summary with three equipment items, picked from an
\* equipment text that has blank lines between them.
C25_Witness ==
    /\ res.fn = "summary"
    /\ res.out.st = "ok"
    /\ Len(ArgEquipmentRaw) = 8
    /\ Len(res.out.val) = 19
    /\ res.out.val[15] = << <<"ONT">> >>
    /\ res.out.val[16] = << <<"router">> >>
    /\ res.out.val[17] = << <<"drop">> >>

\* a summary with no equipment item: RESPONSIBLE PARTY follows the blank
\* line after EQUIPMENT USED
C25_WitnessNoItems ==
    /\ res.fn = "summary"
    /\ res.out.st = "ok"
    /\ Len(res.out.val) = 16
    /\ res.out.val[14] = <<"EQUIPMENT USED:">>

\* some text, neither a tag nor white space, stands in html before the
\* opening of the form (anywhere, if there is no form)
TextBeforeForm(html) ==
    \E i \in 1..Len(html) :
        /\ html[i] \notin HtmlTags \cup {"<form", " ", "\t", "\n"}
        /\ \A j \in 1..i : html[j] # "<form"

\* C26: a task that shows notes text before its form is left unchanged by the
\* run: the iteration ends at the check of the notes, before the customer
\* page or a work-order page is opened, and finalize_task is not called, so
\* the notes field, the two indicators and the submit button stay untouched.
C26_NotedTaskUntouched ==
    (cur.html # NoHtml /\ TextBeforeForm(cur.html)) =>
        /\ pc = "next"
        /\ cur.outcome = "skipped_notes"
        /\ ~cur.pageRead /\ ~cur.tableRead /\ ~cur.statusRead
        /\ ~cur.finalized
        /\ ~cur.toggledBilling /\ ~cur.toggledCompleted
        /\ form[cur.task] = cur.form0

\* C26 witness: the second task of the run shows notes before its form and
\* is skipped, in a run whose first task was finalized as Billable.
C26_Witness ==
    /\ pc = "next"
    /\ idx = 2
    /\ cur.outcome = "skipped_notes"
    /\ cur.html = <<"<div>", "replaced drop", "</div>", "<form", "Save", "</form>">>
    /\ Len(results) = 1
    /\ results[1].Mode = "Billable"
    /\ form[cur.task] = cur.form0

\* C27: a task whose notes say "no charge" or "courtesy dispatch" is never
\* finalized with the spawn-billing indicator set by the run and is never
\* reported with Mode "Billable".
C27_NoChargeNeverBilled ==
    cur.noCharge =>
        /\ ~cur.toggledBilling
        /\ cur.mode # "Billable"
        /\ ~(cur.finalized /\ form[cur.task].billing)

\* C28: when the run aborts on an unexpected exception (the clause that
\* calls sys.exit(1)) and no signal arrives, the process exits with status 1.
C28_AbortExitsWithOne ==
    (proc.pc = "exited" /\ proc.aborted /\ ~proc.signalled) => proc.status = 1

====
